---- MODULE Spec2Model ----
(***************************************************************************)
(* State-machine model of the Ptycography LED matrix firmware libraries:   *)
(* CameraManager, IdleManager, LEDMatrix, PatternGenerator,                *)
(* SerialCommandManager and VisualizationManager.  The firmware is single  *)
(* threaded: one operation runs at a time, and delay() is the only way the *)
(* millisecond clock moves inside an operation.                            *)
(***************************************************************************)
EXTENDS Integers, Sequences, FiniteSets, TLC

VARIABLES
  now,          \* millis(): the unsigned long millisecond clock
  useReady,     \* build option CAMERA_USE_READY_SIGNAL (0 when not defined)
  cam,          \* CameraManager fields
  triggerPin,   \* level of the camera trigger pin
  busyFor,      \* how long the camera holds its busy line after a pulse (ms)
  pc,           \* position inside triggerCamera / testTrigger
  call,         \* the operation in progress or just returned: name, argument, locals
  hw,           \* camera hardware events of that operation, in order
  ret,          \* what the last operation returned
  matrix,       \* LEDMatrix: pin levels, row address cache, dirty flag
  idle,         \* IdleManager fields
  vis,          \* VisualizationManager fields
  ser,          \* SerialCommandManager fields and the bytes waiting in Serial
  fx,           \* LEDMatrix calls made by the last operation, in order
  out,          \* lines the last operation printed on Serial
  gen           \* PatternGenerator fields and the caller's pattern grid

camVars == <<useReady, cam, triggerPin, busyFor, pc, hw>>

opVars == <<call, ret>>

sysVars == <<matrix, idle, vis, ser, fx, out, gen>>

\* call.op stands before the call record: the arguments of two different
\* operations need not be comparable
vars == <<now, camVars, sysVars, call.op, opVars>>

(***************************************************************************)
(* unsigned long: 32 bits, kept as two 16-bit limbs <<high, low>> so that  *)
(* the arithmetic is exactly modulo 2^32.                                  *)
(***************************************************************************)
Limb == 256 * 256

U32(n) == <<(n \div Limb) % Limb, n % Limb>>

Add32(a, b) ==
  LET lo == a[2] + b[2]
      hi == a[1] + b[1] + (lo \div Limb)
  IN  <<hi % Limb, lo % Limb>>

Sub32(a, b) ==
  LET borrow == IF a[2] < b[2] THEN 1 ELSE 0
      lo == a[2] + borrow * Limb - b[2]
      hi == a[1] + Limb - b[1] - borrow
  IN  <<hi % Limb, lo>>

Lt32(a, b) == a[1] < b[1] \/ (a[1] = b[1] /\ a[2] < b[2])
Ge32(a, b) == ~Lt32(a, b)
Gt32(a, b) == Lt32(b, a)

LOW == 0
HIGH == 1

\* ---- bounds of the model ----
MaxTriggers == 2        \* pulses emitted before the model stops calling
WrapLead == 3           \* the clock may start this many ms before 2^32
CAMERA_READY_TIMEOUT == 20   \* set by the build; PtycographyConfig.h gives no value

\* clock values at which the model starts
StartTimes == {U32(0), Sub32(U32(0), U32(WrapLead))}

\* ---- program constants ----
CAMERA_ERROR_NONE == 0
CAMERA_ERROR_TIMEOUT == 1
CAMERA_ERROR_TRIGGER_FAILURE == 2
CAMERA_ERROR_NOT_READY == 3
CAMERA_PULSE_WIDTH == 100
PREFRAME_DELAY == 400
POSTFRAME_DELAY == 1500

(***************************************************************************)
(* CameraManager                                                           *)
(***************************************************************************)
CameraManagerInit ==
  [enabled |-> TRUE,
   pulseWidth |-> CAMERA_PULSE_WIDTH,
   preDelay |-> PREFRAME_DELAY,
   postDelay |-> POSTFRAME_DELAY,
   lastTriggerTime |-> U32(0),
   triggerCount |-> 0,
   triggerActive |-> FALSE,
   errorCode |-> CAMERA_ERROR_NONE]

\* the record of an operation: its name, its argument and, for a camera
\* call, the pulse width in use, the start of the ready-wait and the
\* result of sendTriggerPulse
Op(name, arg) == [op |-> name, arg |-> arg, width |-> 0,
                  startTime |-> U32(0), success |-> TRUE]

\* delay(ms): the clock after a blocking delay
Delay(t, ms) == Add32(t, U32(ms))

\* faulty variant: a width of 0 is accepted
SetPulseWidthValue_ZeroAccepted(old, width) ==
  IF width >= 0 /\ width <= 1000 THEN width ELSE old

\* setPulseWidth / setPreDelay / setPostDelay: the stored value after the call
SetPulseWidthValue(old, width) ==
  IF width > 0 /\ width <= 1000 THEN width ELSE old

SetPreDelayValue(old, delay) ==
  IF delay >= 0 /\ delay <= 5000 THEN delay ELSE old

SetPostDelayValue(old, delay) ==
  IF delay >= 0 /\ delay <= 10000 THEN delay ELSE old

\* arguments the callers pass
PulseWidthArgs == {-1, 0, 1, 1000, 1001}
PreDelayArgs == {-1, 0, 5000, 5001}
PostDelayArgs == {-1, 0, 10000, 10001}
TestWidthArgs == {-1, 2}
BusyDurations == {0, CAMERA_READY_TIMEOUT, CAMERA_READY_TIMEOUT + 1}

\* digitalRead(CAMERA_BUSY_PIN): HIGH while the camera is still busy
DigitalReadBusy ==
  IF Lt32(Sub32(now, call.startTime), U32(busyFor)) THEN HIGH ELSE LOW

\* first statement of triggerCamera and of testTrigger
EntryErrorCode(old) == CAMERA_ERROR_NONE

\* triggerCamera does its ready-wait only in a build with the ready signal
WaitsForReady(waitForReady) == useReady = 1 /\ waitForReady

\* faulty variant: the elapsed time is measured over one poll, not over the wait
ReadyTimedOut_PerPoll(t, startTime) ==
  Gt32(Sub32(t, Sub32(t, U32(10))), U32(CAMERA_READY_TIMEOUT))

\* the timeout test of the ready-wait loop
ReadyTimedOut(t, startTime) ==
  Gt32(Sub32(t, startTime), U32(CAMERA_READY_TIMEOUT))

\* faulty variant: the custom width is ignored
TestPulseWidth_Configured(customPulseWidth, pulseWidth) == pulseWidth

\* the pulse width testTrigger uses
TestPulseWidth(customPulseWidth, pulseWidth) ==
  IF customPulseWidth > 0 THEN customPulseWidth ELSE pulseWidth

\* faulty variant: the pulse is sent but not counted
SendTriggerPulse_NotCounted(c, t, pulseWidth) ==
  [cam |-> [c EXCEPT !.lastTriggerTime = Delay(t, pulseWidth)],
   now |-> Delay(t, pulseWidth),
   success |-> TRUE]

\* faulty variant: the pulse is sent and reported as failed
SendTriggerPulse_Fails(c, t, pulseWidth) ==
  [cam |-> [c EXCEPT !.lastTriggerTime = Delay(t, pulseWidth),
                     !.triggerCount = @ + 1],
   now |-> Delay(t, pulseWidth),
   success |-> FALSE]

\* sendTriggerPulse after the pin went HIGH: hold the pulse, record it
SendTriggerPulse(c, t, pulseWidth) ==
  [cam |-> [c EXCEPT !.lastTriggerTime = Delay(t, pulseWidth),
                     !.triggerCount = @ + 1],
   now |-> Delay(t, pulseWidth),
   success |-> TRUE]

\* begin, lines 29-37
CameraBegin ==
  /\ pc = "idle"
  /\ triggerPin' = LOW
  /\ call' = Op("begin", 0)
  /\ hw' = <<>>
  /\ ret' = "void"
  /\ busyFor' = 0
  /\ UNCHANGED <<now, useReady, cam, pc>>
  /\ UNCHANGED sysVars

\* faulty variant: the enabled flag is not tested
TriggerCamera_IgnoresEnabled(waitForReady) ==
  /\ pc = "idle"
  /\ cam.triggerCount < MaxTriggers
  /\ hw' = <<>>
  /\ call' = [Op("triggerCamera", waitForReady) EXCEPT !.width = cam.pulseWidth]
  /\ cam' = [cam EXCEPT !.errorCode = EntryErrorCode(@), !.triggerActive = TRUE]
  /\ ret' = "pending"
  /\ pc' = "preDelay"
  /\ busyFor' = 0
  /\ UNCHANGED <<now, useReady, triggerPin>>
  /\ UNCHANGED sysVars

\* triggerCamera, lines 45-53: clear the error, return when disabled
TriggerCamera(waitForReady) ==
  /\ pc = "idle"
  /\ cam.triggerCount < MaxTriggers
  /\ hw' = <<>>
  /\ call' = [Op("triggerCamera", waitForReady) EXCEPT !.width = cam.pulseWidth]
  /\ IF ~cam.enabled
       THEN /\ cam' = [cam EXCEPT !.errorCode = EntryErrorCode(@)]
            /\ ret' = TRUE
            /\ pc' = "idle"
       ELSE /\ cam' = [cam EXCEPT !.errorCode = EntryErrorCode(@),
                                  !.triggerActive = TRUE]
            /\ ret' = "pending"
            /\ pc' = "preDelay"
  /\ busyFor' = 0
  /\ UNCHANGED <<now, useReady, triggerPin>>
  /\ UNCHANGED sysVars

\* triggerCamera, lines 55-58
TriggerPreDelay ==
  /\ pc = "preDelay"
  /\ IF cam.preDelay > 0
       THEN /\ now' = Delay(now, cam.preDelay)
            /\ hw' = Append(hw, "preDelay")
       ELSE UNCHANGED <<now, hw>>
  /\ pc' = "pulseHigh"
  /\ UNCHANGED <<useReady, cam, triggerPin, busyFor, call, ret>>
  /\ UNCHANGED sysVars

\* sendTriggerPulse, line 136
PulseHigh ==
  /\ pc = "pulseHigh"
  /\ triggerPin' = HIGH
  /\ hw' = Append(hw, "pinHigh")
  /\ pc' = "pulseLow"
  /\ UNCHANGED <<now, useReady, cam, busyFor, call, ret>>
  /\ UNCHANGED sysVars

\* where a call goes once sendTriggerPulse has returned
AfterPulse(op, waitForReady, success) ==
  IF op = "testTrigger" THEN "testReturn"
  ELSE IF ~success THEN "idle"
  ELSE IF WaitsForReady(waitForReady) THEN "readyWait" ELSE "postDelay"

\* sendTriggerPulse, lines 139-146, and triggerCamera's test of its result
\* (lines 61-66, 71)
PulseLow ==
  /\ pc = "pulseLow"
  /\ LET r == SendTriggerPulse(cam, now, call.width)
         failed == call.op = "triggerCamera" /\ ~r.success
     IN  /\ now' = r.now
         /\ cam' = IF failed
                     THEN [r.cam EXCEPT !.errorCode = CAMERA_ERROR_TRIGGER_FAILURE,
                                        !.triggerActive = FALSE]
                     ELSE r.cam
         /\ ret' = IF failed THEN FALSE ELSE ret
         /\ pc' = AfterPulse(call.op, call.arg, r.success)
         /\ call' = [call EXCEPT !.startTime = r.now, !.success = r.success]
  /\ triggerPin' = LOW
  /\ hw' = hw \o <<"pulseDelay", "pinLow">>
  /\ IF pc' = "readyWait"
       THEN \E d \in BusyDurations : busyFor' = d
       ELSE busyFor' = 0
  /\ UNCHANGED useReady
  /\ UNCHANGED sysVars

\* faulty variant: the ready-wait has no timeout exit
ReadyPoll_NoTimeout ==
  /\ pc = "readyWait"
  /\ IF DigitalReadBusy = HIGH
       THEN /\ now' = Delay(now, 10)
            /\ hw' = hw \o <<"readyRead", "readyDelay">>
            /\ UNCHANGED <<cam, ret, pc>>
       ELSE /\ hw' = Append(hw, "readyRead")
            /\ pc' = "postDelay"
            /\ UNCHANGED <<now, cam, ret>>
  /\ UNCHANGED <<useReady, triggerPin, busyFor, call>>
  /\ UNCHANGED sysVars

\* triggerCamera, lines 74-83: one pass of the ready-wait loop
ReadyPoll ==
  /\ pc = "readyWait"
  /\ IF DigitalReadBusy = HIGH
       THEN /\ now' = Delay(now, 10)
            /\ hw' = hw \o <<"readyRead", "readyDelay">>
            /\ IF ReadyTimedOut(now', call.startTime)
                 THEN /\ cam' = [cam EXCEPT !.errorCode = CAMERA_ERROR_TIMEOUT,
                                            !.triggerActive = FALSE]
                      /\ ret' = FALSE
                      /\ pc' = "idle"
                 ELSE UNCHANGED <<cam, ret, pc>>
       ELSE /\ hw' = Append(hw, "readyRead")
            /\ pc' = "postDelay"
            /\ UNCHANGED <<now, cam, ret>>
  /\ UNCHANGED <<useReady, triggerPin, busyFor, call>>
  /\ UNCHANGED sysVars

\* faulty variant: the post-delay runs first and the ready-wait is entered again
TriggerPostDelay_ThenWait ==
  /\ pc = "postDelay"
  /\ IF cam.postDelay > 0
       THEN /\ now' = Delay(now, cam.postDelay)
            /\ hw' = Append(hw, "postDelay")
       ELSE UNCHANGED <<now, hw>>
  /\ IF WaitsForReady(call.arg) /\ Len(hw) < 8
       THEN /\ pc' = "readyWait"
            /\ UNCHANGED <<cam, ret>>
       ELSE /\ cam' = [cam EXCEPT !.triggerActive = FALSE]
            /\ ret' = TRUE
            /\ pc' = "idle"
  /\ UNCHANGED <<useReady, triggerPin, busyFor, call>>
  /\ UNCHANGED sysVars

\* triggerCamera, lines 87-95
TriggerPostDelay ==
  /\ pc = "postDelay"
  /\ IF cam.postDelay > 0
       THEN /\ now' = Delay(now, cam.postDelay)
            /\ hw' = Append(hw, "postDelay")
       ELSE UNCHANGED <<now, hw>>
  /\ cam' = [cam EXCEPT !.triggerActive = FALSE]
  /\ ret' = TRUE
  /\ pc' = "idle"
  /\ UNCHANGED <<useReady, triggerPin, busyFor, call>>
  /\ UNCHANGED sysVars

\* testTrigger, lines 104-115
TestTrigger(customPulseWidth) ==
  /\ pc = "idle"
  /\ cam.triggerCount < MaxTriggers
  /\ hw' = <<>>
  /\ call' = [Op("testTrigger", customPulseWidth) EXCEPT
                !.width = TestPulseWidth(customPulseWidth, cam.pulseWidth)]
  /\ IF ~cam.enabled
       THEN /\ cam' = [cam EXCEPT !.errorCode = EntryErrorCode(@)]
            /\ ret' = TRUE
            /\ pc' = "idle"
       ELSE /\ cam' = [cam EXCEPT !.errorCode = EntryErrorCode(@),
                                  !.triggerActive = TRUE]
            /\ ret' = "pending"
            /\ pc' = "pulseHigh"
  /\ busyFor' = 0
  /\ UNCHANGED <<now, useReady, triggerPin>>
  /\ UNCHANGED sysVars

\* testTrigger, lines 118-125
TestReturn ==
  /\ pc = "testReturn"
  /\ cam' = [cam EXCEPT !.triggerActive = FALSE,
                        !.errorCode = IF call.success THEN @
                                      ELSE CAMERA_ERROR_TRIGGER_FAILURE]
  /\ ret' = call.success
  /\ pc' = "idle"
  /\ UNCHANGED <<now, useReady, triggerPin, busyFor, call, hw>>
  /\ UNCHANGED sysVars

\* an operation that runs to its end in one step and drives no camera pin
CameraOp(name, arg, result) ==
  /\ pc = "idle"
  /\ call' = Op(name, arg)
  /\ hw' = <<>>
  /\ ret' = result
  /\ busyFor' = 0
  /\ UNCHANGED <<now, useReady, triggerPin, pc>>
  /\ UNCHANGED sysVars

SetEnabled(enabled) ==
  /\ CameraOp("setEnabled", enabled, "void")
  /\ cam' = [cam EXCEPT !.enabled = enabled]

SetPulseWidth(width) ==
  /\ CameraOp("setPulseWidth", width, "void")
  /\ cam' = [cam EXCEPT !.pulseWidth = SetPulseWidthValue(@, width)]

SetPreDelay(delay) ==
  /\ CameraOp("setPreDelay", delay, "void")
  /\ cam' = [cam EXCEPT !.preDelay = SetPreDelayValue(@, delay)]

SetPostDelay(delay) ==
  /\ CameraOp("setPostDelay", delay, "void")
  /\ cam' = [cam EXCEPT !.postDelay = SetPostDelayValue(@, delay)]

\* faulty variant: reading the error code clears it
GetErrorCode_Clears ==
  /\ CameraOp("getErrorCode", 0, cam.errorCode)
  /\ cam' = [cam EXCEPT !.errorCode = CAMERA_ERROR_NONE]

GetErrorCode ==
  /\ CameraOp("getErrorCode", 0, cam.errorCode)
  /\ UNCHANGED cam

ClearErrorCode ==
  /\ CameraOp("clearErrorCode", 0, "void")
  /\ cam' = [cam EXCEPT !.errorCode = CAMERA_ERROR_NONE]

(***************************************************************************)
(* LEDMatrix                                                               *)
(***************************************************************************)
MATRIX_WIDTH == 64
MATRIX_HEIGHT == 64
MATRIX_HALF_HEIGHT == 32
COLOR_RED == 1
COLOR_GREEN == 2
COLOR_BLUE == 4
COLOR_MAX == 7

\* (n & mask) > 0 ? 1 : 0 for a one-bit mask
MaskBit(n, mask) == IF (n \div mask) % 2 = 1 THEN 1 ELSE 0

\* faulty variant: the bit A3 is taken from the mask of A4
InitAddressCache_WrongMask ==
  [y \in 0..(MATRIX_HEIGHT - 1) |->
     LET rowAddr == y % MATRIX_HALF_HEIGHT
     IN  <<MaskBit(rowAddr, 1), MaskBit(rowAddr, 2), MaskBit(rowAddr, 4),
           MaskBit(rowAddr, 16), MaskBit(rowAddr, 16)>>]

\* initAddressCache: the five address bits of every row
InitAddressCache ==
  [y \in 0..(MATRIX_HEIGHT - 1) |->
     LET rowAddr == y % MATRIX_HALF_HEIGHT
     IN  <<MaskBit(rowAddr, 1), MaskBit(rowAddr, 2), MaskBit(rowAddr, 4),
           MaskBit(rowAddr, 8), MaskBit(rowAddr, 16)>>]

\* the constructor: pins not yet driven, cache not yet computed; shift records
\* what the last call that wrote the panel shifted into it: the rows it
\* addressed (in ascending order), the clock pulses given to each of them,
\* the columns clocked in with a colour line HIGH, the address lines A0..A4
\* at the clock pulses of each row (addr), the blank and latch lines at every
\* clock pulse (ctl), and the pin writes that follow the last clock pulse of
\* the call, in order (tail); lastSet keeps the arguments of the last
\* successful setLED and the columns it clocked in with a colour line HIGH
LEDMatrixInit ==
  [pin |-> [BL |-> LOW, CK |-> LOW, LA |-> LOW,
            A0 |-> LOW, A1 |-> LOW, A2 |-> LOW, A3 |-> LOW, A4 |-> LOW,
            R0 |-> LOW, R1 |-> LOW, G0 |-> LOW, G1 |-> LOW,
            B0 |-> LOW, B1 |-> LOW],
   rowAddressCache |-> [y \in 0..(MATRIX_HEIGHT - 1) |-> <<0, 0, 0, 0, 0>>],
   displayDirty |-> TRUE,
   shift |-> [rows |-> {}, clocks |-> 0, high |-> {}, addr |-> <<>>,
              ctl |-> [BL |-> LOW, LA |-> LOW], tail |-> <<>>],
   lastSet |-> [x |-> 0 - 1, y |-> 0 - 1, color |-> 0, high |-> {}]]

isValidCoordinate(x, y) ==
  x >= 0 /\ x < MATRIX_WIDTH /\ y >= 0 /\ y < MATRIX_HEIGHT

\* faulty variant: the upper bound is tested with < against COLOR_MAX + 2
isValidColor_OffByOne(color) == color >= 0 /\ color < COLOR_MAX + 2

isValidColor(color) == color >= 0 /\ color <= COLOR_MAX

\* the six colour lines, and all of them LOW
ColourLines(p) == <<p.R0, p.R1, p.G0, p.G1, p.B0, p.B1>>

AllLow == <<LOW, LOW, LOW, LOW, LOW, LOW>>

\* the address pulse on A0 and the cached row address, as setLED and
\* clearDisplay apply them
ApplyRowAddress(p, cache, y) ==
  [p EXCEPT !.A0 = cache[y][1], !.A1 = cache[y][2], !.A2 = cache[y][3],
            !.A3 = cache[y][4], !.A4 = cache[y][5]]

\* setLED, lines 152-169: one pass of the column loop, for column i
SetLEDColumn(p, x, isLowerHalf, color, i) ==
  LET isTargetColumn == i = x
      currentR == MaskBit(color, COLOR_RED)
      currentG == MaskBit(color, COLOR_GREEN)
      currentB == MaskBit(color, COLOR_BLUE)
      q == IF isTargetColumn \/ i = x + 1
             THEN [p EXCEPT
                     !.G0 = IF isTargetColumn /\ isLowerHalf THEN currentG ELSE 0,
                     !.G1 = IF isTargetColumn /\ ~isLowerHalf THEN currentG ELSE 0,
                     !.R0 = IF isTargetColumn /\ isLowerHalf THEN currentR ELSE 0,
                     !.R1 = IF isTargetColumn /\ ~isLowerHalf THEN currentR ELSE 0,
                     !.B0 = IF isTargetColumn /\ isLowerHalf THEN currentB ELSE 0,
                     !.B1 = IF isTargetColumn /\ ~isLowerHalf THEN currentB ELSE 0]
             ELSE p
  IN  [q EXCEPT !.CK = LOW]

\* the whole loop: the passes for the columns other than x and x + 1 pulse
\* the clock and write no other pin, so the pins after the loop are those
\* after the passes for x and, where it is a column, x + 1
SetLEDColumns(p, x, isLowerHalf, color) ==
  LET atTarget == SetLEDColumn(p, x, isLowerHalf, color, x)
  IN  IF x + 1 < MATRIX_WIDTH
        THEN SetLEDColumn(atTarget, x, isLowerHalf, color, x + 1)
        ELSE atTarget

\* the colour lines at the clock pulse of column i: before column x they are
\* as the call found them, at x as the pass for x set them, after x as the
\* pass for x + 1 set them
ColumnColours(p, x, isLowerHalf, color, i) ==
  LET atTarget == SetLEDColumn(p, x, isLowerHalf, color, x)
  IN  ColourLines(IF i < x THEN p
                  ELSE IF i = x THEN atTarget
                  ELSE SetLEDColumn(atTarget, x, isLowerHalf, color, x + 1))

\* the address lines A0..A4
AddressLines(p) == <<p.A0, p.A1, p.A2, p.A3, p.A4>>

\* the row setLED shifts in, p being the pins when the column loop starts:
\* the loop writes neither the blank, latch nor address lines, and lines
\* 172-173 follow it
SetLEDShift(p, x, y, isLowerHalf, color) ==
  [rows |-> {y}, clocks |-> MATRIX_WIDTH,
   high |-> {<<i, ColumnColours(p, x, isLowerHalf, color, i)>> :
               i \in {j \in 0..(MATRIX_WIDTH - 1) :
                        ColumnColours(p, x, isLowerHalf, color, j) # AllLow}},
   addr |-> [r \in {y} |-> AddressLines(p)],
   ctl |-> [BL |-> p.BL, LA |-> p.LA],
   tail |-> << <<"LA", LOW>>, <<"BL", LOW>> >>]

\* faulty variant: the latch line is not raised before the data is loaded
SetLED_NoLatch(m, x, y, color) ==
  IF ~isValidCoordinate(x, y) \/ ~isValidColor(color)
    THEN [matrix |-> m, ok |-> FALSE]
    ELSE
      LET isLowerHalf == y < MATRIX_HALF_HEIGHT
          p1 == [m.pin EXCEPT !.BL = HIGH]
          p2 == ApplyRowAddress(p1, m.rowAddressCache, y)
          p3 == SetLEDColumns(p2, x, isLowerHalf, color)
          p4 == [p3 EXCEPT !.LA = LOW, !.BL = LOW]
      IN  [matrix |-> [m EXCEPT
                         !.pin = p4, !.displayDirty = FALSE,
                         !.shift = SetLEDShift(p2, x, y, isLowerHalf, color),
                         !.lastSet =
                           [x |-> x, y |-> y, color |-> color,
                            high |-> SetLEDShift(p2, x, y, isLowerHalf,
                                                 color).high]],
           ok |-> TRUE]

\* setLED: the matrix after the call and the value returned
SetLED(m, x, y, color) ==
  IF ~isValidCoordinate(x, y) \/ ~isValidColor(color)
    THEN [matrix |-> m, ok |-> FALSE]
    ELSE
      LET isLowerHalf == y < MATRIX_HALF_HEIGHT
          p1 == [m.pin EXCEPT !.BL = HIGH, !.LA = HIGH]
          p2 == ApplyRowAddress(p1, m.rowAddressCache, y)
          p3 == SetLEDColumns(p2, x, isLowerHalf, color)
          p4 == [p3 EXCEPT !.LA = LOW, !.BL = LOW]
      IN  [matrix |-> [m EXCEPT
                         !.pin = p4, !.displayDirty = FALSE,
                         !.shift = SetLEDShift(p2, x, y, isLowerHalf, color),
                         !.lastSet =
                           [x |-> x, y |-> y, color |-> color,
                            high |-> SetLEDShift(p2, x, y, isLowerHalf,
                                                 color).high]],
           ok |-> TRUE]

\* clearDisplay, lines 200-229: one row of the loop
ClearRow(p, cache, y) ==
  LET p1 == [p EXCEPT !.LA = HIGH]
      p2 == ApplyRowAddress(p1, cache, y)
      p3 == [p2 EXCEPT !.CK = LOW]
  IN  [p3 EXCEPT !.LA = LOW]

\* the whole loop visits the rows 0..63 in order and every row writes the
\* same pins, so the pins after the loop are those after the last row
ClearRows(p, cache) == ClearRow(p, cache, MATRIX_HEIGHT - 1)

\* the rows clearDisplay shifts in: no pass of the row loop writes a colour
\* line or the blank line, so every column of every row is clocked in with
\* them as p has them, with the latch line HIGH and the address of the row
ClearShift(p, cache) ==
  [rows |-> 0..(MATRIX_HEIGHT - 1), clocks |-> MATRIX_WIDTH,
   high |-> {<<i, ColourLines(p)>> :
               i \in {j \in 0..(MATRIX_WIDTH - 1) : ColourLines(p) # AllLow}},
   addr |-> [r \in 0..(MATRIX_HEIGHT - 1) |->
               AddressLines(ApplyRowAddress(p, cache, r))],
   ctl |-> [BL |-> p.BL, LA |-> HIGH],
   tail |-> << <<"LA", LOW>>, <<"BL", HIGH>> >>]

\* faulty variant: the colour lines are not driven LOW first
ClearDisplay_ColoursKept(m) ==
  LET p1 == [m.pin EXCEPT !.BL = HIGH]
      p2 == ClearRows(p1, m.rowAddressCache)
  IN  [m EXCEPT !.pin = [p2 EXCEPT !.BL = HIGH], !.displayDirty = FALSE,
                !.shift = ClearShift(p1, m.rowAddressCache)]

ClearDisplay(m) ==
  LET p1 == [m.pin EXCEPT !.BL = HIGH,
                          !.R0 = LOW, !.R1 = LOW, !.G0 = LOW,
                          !.G1 = LOW, !.B0 = LOW, !.B1 = LOW]
      p2 == ClearRows(p1, m.rowAddressCache)
  IN  [m EXCEPT !.pin = [p2 EXCEPT !.BL = HIGH], !.displayDirty = FALSE,
                !.shift = ClearShift(p1, m.rowAddressCache)]

SetDisplayDirty(m, dirty) == [m EXCEPT !.displayDirty = dirty]

\* begin: blank the display, compute the cache, clear
LEDMatrixBegin(m) ==
  ClearDisplay([m EXCEPT !.pin.BL = HIGH, !.rowAddressCache = InitAddressCache])

(***************************************************************************)
(* IdleManager                                                             *)
(***************************************************************************)
IDLE_TIMEOUT == 1800000
IDLE_BLINK_INTERVAL == 60000
IDLE_BLINK_DURATION == 500

IdleManagerInit(idleTimeout, blinkInterval, blinkDuration) ==
  [idleTimeout |-> U32(idleTimeout),
   blinkInterval |-> U32(blinkInterval),
   blinkDuration |-> U32(blinkDuration),
   idleMode |-> FALSE,
   lastActivityTime |-> U32(0),
   lastBlinkTime |-> U32(0)]

\* what an IdleManager call leaves behind
IdleResult(i, m, t, calls) == [idle |-> i, matrix |-> m, now |-> t, fx |-> calls]

IdleBegin(i, t) ==
  [i EXCEPT !.lastActivityTime = t, !.lastBlinkTime = t, !.idleMode = FALSE]

\* faulty variant: the heartbeat timer is not reset on entering Idle
EnterIdleMode_KeepsBlinkTime(i, m, t) ==
  IF ~i.idleMode
    THEN IdleResult([i EXCEPT !.idleMode = TRUE],
                    ClearDisplay(m), t, <<"clearDisplay">>)
    ELSE IdleResult(i, m, t, <<>>)

EnterIdleMode(i, m, t) ==
  IF ~i.idleMode
    THEN IdleResult([i EXCEPT !.idleMode = TRUE, !.lastBlinkTime = t],
                    ClearDisplay(m), t, <<"clearDisplay">>)
    ELSE IdleResult(i, m, t, <<>>)

\* faulty variant: leaving Idle does not restart the inactivity clock
ExitIdleMode_KeepsActivityTime(i, m, t) ==
  IF i.idleMode
    THEN IdleResult([i EXCEPT !.idleMode = FALSE],
                    SetDisplayDirty(m, TRUE), t, <<"setDisplayDirty">>)
    ELSE IdleResult(i, m, t, <<>>)

ExitIdleMode(i, m, t) ==
  IF i.idleMode
    THEN IdleResult([i EXCEPT !.idleMode = FALSE, !.lastActivityTime = t],
                    SetDisplayDirty(m, TRUE), t, <<"setDisplayDirty">>)
    ELSE IdleResult(i, m, t, <<>>)

\* faulty variant: recording activity also leaves Idle
UpdateActivityTime_ExitsIdle(i, t) ==
  [i EXCEPT !.lastActivityTime = t, !.idleMode = FALSE]

UpdateActivityTime(i, t) == [i EXCEPT !.lastActivityTime = t]

\* faulty variant: the timeout has to be exceeded strictly
isIdleTimeoutExceeded_Strict(i, currentTime) ==
  Gt32(Sub32(currentTime, i.lastActivityTime), i.idleTimeout)

\* faulty variant: the deadline is computed and compared with the clock
isIdleTimeoutExceeded_Deadline(i, currentTime) ==
  Ge32(currentTime, Add32(i.lastActivityTime, i.idleTimeout))

isIdleTimeoutExceeded(i, currentTime) ==
  Ge32(Sub32(currentTime, i.lastActivityTime), i.idleTimeout)

\* faulty variant: the heartbeat interval is measured from the last activity
isBlinkIntervalExceeded_SinceActivity(i, currentTime) ==
  Ge32(Sub32(currentTime, i.lastActivityTime), i.blinkInterval)

isBlinkIntervalExceeded(i, currentTime) ==
  Ge32(Sub32(currentTime, i.lastBlinkTime), i.blinkInterval)

\* faulty variant: the heartbeat does not clear the display after the hold
BlinkHeartbeat_NoClear(i, m, t) ==
  LET lit == SetLED(m, MATRIX_WIDTH \div 2, MATRIX_HEIGHT \div 2, COLOR_GREEN)
  IN  IdleResult(i, lit.matrix, Add32(t, i.blinkDuration), <<"setLED">>)

\* blinkHeartbeat: light the centre LED, hold it, clear
BlinkHeartbeat(i, m, t) ==
  LET lit == SetLED(m, MATRIX_WIDTH \div 2, MATRIX_HEIGHT \div 2, COLOR_GREEN)
  IN  IdleResult(i, ClearDisplay(lit.matrix), Add32(t, i.blinkDuration),
                 <<"setLED", "clearDisplay">>)

Update(i, m, currentTime) ==
  IF i.idleMode
    THEN IF isBlinkIntervalExceeded(i, currentTime)
           THEN LET b == BlinkHeartbeat(i, m, currentTime)
                IN  [b EXCEPT !.idle.lastBlinkTime = currentTime]
           ELSE IdleResult(i, m, currentTime, <<>>)
    ELSE IF isIdleTimeoutExceeded(i, currentTime)
           THEN EnterIdleMode(i, m, currentTime)
           ELSE IdleResult(i, m, currentTime, <<>>)

\* ---- bounds of the idle model ----
MaxTime == 5            \* the model clock ticks this far past its start
MaxIdleTimeout == 3     \* largest idle timeout the model constructs (ms)
MaxBlinkInterval == 2   \* largest heartbeat interval the model constructs (ms)

IdleTimeouts == {0, MaxIdleTimeout - 1, MaxIdleTimeout}
BlinkIntervals == {MaxBlinkInterval}
BlinkDurations == {0, 1}

\* the clock values the model lets time pass to
ClockInRange(t) == Lt32(Add32(t, U32(WrapLead)), U32(MaxTime + WrapLead + 1))

\* setup() has not returned yet: nothing but constructors and begin calls ran
InSetup ==
  call.op \in {"construct", "LEDMatrix.begin", "IdleManager.begin",
               "SerialCommandManager.begin"}

\* an operation on another object than the camera: it runs between camera calls
SysOp(name, arg, result) ==
  /\ pc = "idle"
  /\ call' = Op(name, arg)
  /\ ret' = result
  /\ UNCHANGED <<camVars, gen>>

\* an IdleManager call that ran to its end
IdleDone(r) ==
  /\ idle' = r.idle
  /\ matrix' = r.matrix
  /\ now' = r.now
  /\ fx' = r.fx
  /\ out' = <<>>
  /\ UNCHANGED <<vis, ser>>

\* time passes between two operations
Tick ==
  /\ ClockInRange(Add32(now, U32(1)))
  /\ now' = Add32(now, U32(1))
  /\ SysOp("tick", 0, "void")
  /\ fx' = <<>>
  /\ out' = <<>>
  /\ UNCHANGED <<matrix, idle, vis, ser>>

CallMatrixBegin ==
  /\ InSetup
  /\ SysOp("LEDMatrix.begin", 0, "void")
  /\ matrix' = LEDMatrixBegin(matrix)
  /\ fx' = <<"clearDisplay">>
  /\ out' = <<>>
  /\ UNCHANGED <<now, idle, vis, ser>>

\* the arguments setLED is called with: the values next to each range, its
\* ends, a row of the upper half and a colour of two bits
SetLEDXs == {0 - 1, 0, 63, 64}
SetLEDYs == {0 - 1, 0, 32, 64}
SetLEDColors == {0 - 1, 0, 5, 8}

\* a LEDMatrix call that ran to its end
MatrixDone(m, calls) ==
  /\ matrix' = m
  /\ fx' = calls
  /\ out' = <<>>
  /\ UNCHANGED <<now, idle, vis, ser>>

CallSetLED(x, y, color) ==
  /\ SysOp("setLED", <<x, y, color>>, SetLED(matrix, x, y, color).ok)
  /\ MatrixDone(SetLED(matrix, x, y, color).matrix, <<"setLED">>)

CallClearDisplay ==
  /\ SysOp("clearDisplay", 0, "void")
  /\ MatrixDone(ClearDisplay(matrix), <<"clearDisplay">>)

CallSetDisplayDirty(dirty) ==
  /\ SysOp("setDisplayDirty", dirty, "void")
  /\ MatrixDone(SetDisplayDirty(matrix, dirty), <<"setDisplayDirty">>)

CallIdleBegin ==
  /\ InSetup
  /\ SysOp("IdleManager.begin", 0, "void")
  /\ IdleDone(IdleResult(IdleBegin(idle, now), matrix, now, <<>>))

CallEnterIdleMode ==
  /\ SysOp("enterIdleMode", 0, "void")
  /\ IdleDone(EnterIdleMode(idle, matrix, now))

CallExitIdleMode ==
  /\ SysOp("exitIdleMode", 0, "void")
  /\ IdleDone(ExitIdleMode(idle, matrix, now))

CallUpdateActivityTime ==
  /\ SysOp("updateActivityTime", 0, "void")
  /\ IdleDone(IdleResult(UpdateActivityTime(idle, now), matrix, now, <<>>))

CallUpdate ==
  /\ SysOp("update", 0, "void")
  /\ IdleDone(Update(idle, matrix, now))

(***************************************************************************)
(* VisualizationManager and SerialCommandManager                           *)
(***************************************************************************)
SERIAL_TIMEOUT == 5000
CMD_IDLE_ENTER == "i"
CMD_IDLE_EXIT == "a"
CMD_VIS_START == "v"
CMD_VIS_STOP == "q"
CMD_PATTERN_EXPORT == "p"
CMD_SET_CAMERA == "C"

VisualizationManagerInit == [enabled |-> FALSE, lastUpdateTime |-> U32(0)]

VisEnable(v, t) == [v EXCEPT !.enabled = TRUE, !.lastUpdateTime = t]

VisDisable(v) == [v EXCEPT !.enabled = FALSE]

\* Serial.print(x): the decimal digits of an int
PrintInt(n) == ToString(n)

PatternLine(x, y) == "PATTERN," \o PrintInt(x) \o "," \o PrintInt(y)

\* exportPattern, lines 94-103: the cells from index k on, row by row
RECURSIVE ExportCells(_, _, _, _)
ExportCells(pattern, width, height, k) ==
  IF k >= width * height THEN <<>>
  ELSE LET y == k \div width
           x == k % width
       IN  (IF pattern[y][x] THEN <<PatternLine(x, y)>> ELSE <<>>)
             \o ExportCells(pattern, width, height, k + 1)

\* faulty variant: the closing line is not sent
ExportPattern_NoEnd(v, pattern, width, height) ==
  IF ~v.enabled THEN <<>>
  ELSE <<"PATTERN_START">> \o ExportCells(pattern, width, height, 0)

\* exportPattern: the lines it prints
ExportPattern(v, pattern, width, height) ==
  IF ~v.enabled THEN <<>>
  ELSE <<"PATTERN_START">> \o ExportCells(pattern, width, height, 0)
         \o <<"PATTERN_END">>

\* the constructor; rx is the receive buffer of Serial, line the line the
\* host sent last, received counts the lines the host has sent, hasCamera is
\* _cameraManager != nullptr
SerialCommandManagerInit(hasCamera) ==
  [serialReady |-> FALSE, hasCamera |-> hasCamera, rx |-> <<>>,
   line |-> <<>>, received |-> 0]

\* ---- Stream::parseInt as the Arduino core implements it ----
IsDigit(c) == c \in {"0", "1", "2", "3", "4", "5", "6", "7", "8", "9"}

DigitValue(c) ==
  CASE c = "0" -> 0 [] c = "1" -> 1 [] c = "2" -> 2 [] c = "3" -> 3
    [] c = "4" -> 4 [] c = "5" -> 5 [] c = "6" -> 6 [] c = "7" -> 7
    [] c = "8" -> 8 [] c = "9" -> 9

\* peekNextDigit: drop what is neither a digit nor a minus sign
RECURSIVE SkipToNumber(_)
SkipToNumber(rx) ==
  IF rx = <<>> \/ IsDigit(Head(rx)) \/ Head(rx) = "-" THEN rx
  ELSE SkipToNumber(Tail(rx))

\* the digits read after the first character, until the next character is
\* no digit or none arrives before the timeout
RECURSIVE ReadDigits(_, _)
ReadDigits(rx, value) ==
  IF rx = <<>> THEN [value |-> value, rx |-> rx, timedOut |-> TRUE]
  ELSE IF IsDigit(Head(rx))
         THEN ReadDigits(Tail(rx), value * 10 + DigitValue(Head(rx)))
         ELSE [value |-> value, rx |-> rx, timedOut |-> FALSE]

ParseInt(rx) ==
  LET s == SkipToNumber(rx)
  IN  IF s = <<>> THEN [value |-> 0, rx |-> s, timedOut |-> TRUE]
      ELSE LET isNegative == Head(s) = "-"
               r == ReadDigits(Tail(s),
                               IF isNegative THEN 0 ELSE DigitValue(Head(s)))
           IN  IF isNegative THEN [r EXCEPT !.value = 0 - @] ELSE r

\* ---- the command handlers, on the state a handler can touch ----
SafePrint(s, message) == [s EXCEPT !.out = Append(@, message)]

\* Serial.parseInt() on the receive buffer: the value is left in s.value, a
\* timeout costs the stream timeout
SerialParseInt(s) ==
  LET r == ParseInt(s.rx)
  IN  [s EXCEPT !.rx = r.rx, !.value = r.value,
                !.now = IF r.timedOut THEN Delay(@, SERIAL_TIMEOUT) ELSE @]

\* !Serial.available() || Serial.read() != ',' : the test and what it reads
CommaMissing(s) == s.rx = <<>> \/ Head(s.rx) # ","

AfterComma(s) == IF s.rx = <<>> THEN s ELSE [s EXCEPT !.rx = Tail(@)]

ApplyIdle(s, r) ==
  [s EXCEPT !.idle = r.idle, !.matrix = r.matrix, !.now = r.now,
            !.fx = @ \o r.fx]

HandleIdleEnterCommand(s) ==
  IF ~s.idle.idleMode
    THEN LET p == SafePrint(s, "Entering idle mode (manual)")
         IN  ApplyIdle(p, EnterIdleMode(p.idle, p.matrix, p.now))
    ELSE s

\* faulty variant: 'a' while Active marks the display dirty
HandleIdleExitCommand_MarksDirty(s) ==
  IF s.idle.idleMode
    THEN LET p == SafePrint(s, "Exiting idle mode (manual)")
         IN  ApplyIdle(p, ExitIdleMode(p.idle, p.matrix, p.now))
    ELSE [s EXCEPT !.matrix = SetDisplayDirty(@, TRUE),
                   !.fx = Append(@, "setDisplayDirty")]

HandleIdleExitCommand(s) ==
  IF s.idle.idleMode
    THEN LET p == SafePrint(s, "Exiting idle mode (manual)")
         IN  ApplyIdle(p, ExitIdleMode(p.idle, p.matrix, p.now))
    ELSE s

HandleVisStartCommand(s) ==
  IF ~s.vis.enabled
    THEN [SafePrint(s, "Starting visualization mode") EXCEPT
            !.vis = VisEnable(@, s.now)]
    ELSE s

HandleVisStopCommand(s) ==
  IF s.vis.enabled
    THEN [SafePrint(s, "Stopping visualization mode") EXCEPT
            !.vis = VisDisable(@)]
    ELSE s

\* faulty variant: the export command counts as activity
HandlePatternExportCommand_IsActivity(s) ==
  LET p == SafePrint(s, "Exporting LED pattern...")
  IN  [p EXCEPT !.idle = UpdateActivityTime(@, p.now)]

HandlePatternExportCommand(s) == SafePrint(s, "Exporting LED pattern...")

\* testTrigger run to its end, CameraManager.cpp lines 104-126
TestTriggerCall(s, customPulseWidth) ==
  LET c0 == [s.cam EXCEPT !.errorCode = EntryErrorCode(@)]
  IN  IF ~c0.enabled THEN [s EXCEPT !.cam = c0, !.success = TRUE]
      ELSE
        LET r == SendTriggerPulse([c0 EXCEPT !.triggerActive = TRUE], s.now,
                                  TestPulseWidth(customPulseWidth, c0.pulseWidth))
        IN  [s EXCEPT
               !.cam = [r.cam EXCEPT
                          !.triggerActive = FALSE,
                          !.errorCode = IF r.success THEN @
                                        ELSE CAMERA_ERROR_TRIGGER_FAILURE],
               !.now = r.now,
               !.hw = @ \o <<"pinHigh", "pulseDelay", "pinLow">>,
               !.success = r.success]

\* faulty variant: the second field is taken as the pulse width and the third
\* as the pre-delay
CameraSettings_WidthBeforeDelay(s) ==
  LET e == SerialParseInt(s)
  IN  IF CommaMissing(e)
        THEN SafePrint(AfterComma(e), "ERROR: Invalid camera settings format")
      ELSE
  LET pre == SerialParseInt(AfterComma(e))
  IN  IF CommaMissing(pre)
        THEN SafePrint(AfterComma(pre), "ERROR: Invalid camera settings format")
      ELSE
  LET pw == SerialParseInt(AfterComma(pre))
  IN  IF CommaMissing(pw)
        THEN SafePrint(AfterComma(pw), "ERROR: Invalid camera settings format")
      ELSE
  LET post == SerialParseInt(AfterComma(pw))
      applied ==
        [post.cam EXCEPT
           !.enabled = e.value # 0,
           !.preDelay = SetPreDelayValue(@, pw.value),
           !.pulseWidth = SetPulseWidthValue(@, pre.value),
           !.postDelay = SetPostDelayValue(@, post.value)]
  IN  SafePrint([post EXCEPT !.cam = applied], "Camera settings updated")

\* handleCameraCommand, lines 203-237: the settings command after "S,"
CameraSettings(s) ==
  LET e == SerialParseInt(s)
  IN  IF CommaMissing(e)
        THEN SafePrint(AfterComma(e), "ERROR: Invalid camera settings format")
      ELSE
  LET pre == SerialParseInt(AfterComma(e))
  IN  IF CommaMissing(pre)
        THEN SafePrint(AfterComma(pre), "ERROR: Invalid camera settings format")
      ELSE
  LET pw == SerialParseInt(AfterComma(pre))
  IN  IF CommaMissing(pw)
        THEN SafePrint(AfterComma(pw), "ERROR: Invalid camera settings format")
      ELSE
  LET post == SerialParseInt(AfterComma(pw))
      applied ==
        [post.cam EXCEPT
           !.enabled = e.value # 0,
           !.preDelay = SetPreDelayValue(@, pre.value),
           !.pulseWidth = SetPulseWidthValue(@, pw.value),
           !.postDelay = SetPostDelayValue(@, post.value)]
  IN  SafePrint([post EXCEPT !.cam = applied], "Camera settings updated")

\* handleCameraCommand, lines 240-264: the test command after "T,"
CameraTest(s) ==
  LET e == SerialParseInt(s)
  IN  IF CommaMissing(e)
        THEN SafePrint(AfterComma(e), "ERROR: Invalid camera test format")
      ELSE
  LET pw == SerialParseInt(AfterComma(e))
  IN  IF e.value # 0
        THEN LET t == TestTriggerCall(SafePrint(pw, "Testing camera trigger..."),
                                      pw.value)
             IN  IF t.success
                   THEN SafePrint(t, "Camera test completed successfully")
                   ELSE SafePrint(t, "ERROR: Camera test failed")
        ELSE SafePrint(pw, "Camera test skipped (camera disabled)")

HandleCameraCommand(s, hasCamera) ==
  IF ~hasCamera THEN SafePrint(s, "ERROR: No camera manager available")
  ELSE
    LET w == [s EXCEPT !.now = Delay(@, 10)]
    IN  IF w.rx = <<>> THEN w
        ELSE
          LET type == Head(w.rx)
              t == [w EXCEPT !.rx = Tail(@)]
          IN  IF type # "S" /\ type # "T"
                THEN SafePrint(t, "ERROR: Invalid camera command type")
              ELSE IF CommaMissing(t)
                THEN SafePrint(AfterComma(t), "ERROR: Invalid camera command format")
              ELSE IF type = "S" THEN CameraSettings(AfterComma(t))
              ELSE CameraTest(AfterComma(t))

\* faulty variant: the byte counts as activity but Idle is not left
HandleUnknownCommand_StaysIdle(s) ==
  [s EXCEPT !.idle = UpdateActivityTime(@, s.now)]

HandleUnknownCommand(s) ==
  LET e == IF s.idle.idleMode
             THEN LET p == SafePrint(s, "Exiting idle mode due to serial activity")
                  IN  ApplyIdle(p, ExitIdleMode(p.idle, p.matrix, p.now))
             ELSE s
  IN  [e EXCEPT !.idle = UpdateActivityTime(@, e.now)]

\* processCommands, the switch of lines 51-79
Dispatch(s, hasCamera, cmd) ==
  CASE cmd = CMD_IDLE_ENTER -> HandleIdleEnterCommand(s)
    [] cmd = CMD_IDLE_EXIT -> HandleIdleExitCommand(s)
    [] cmd = CMD_VIS_START -> HandleVisStartCommand(s)
    [] cmd = CMD_VIS_STOP -> HandleVisStopCommand(s)
    [] cmd = CMD_PATTERN_EXPORT -> HandlePatternExportCommand(s)
    [] cmd = CMD_SET_CAMERA -> HandleCameraCommand(s, hasCamera)
    [] OTHER -> HandleUnknownCommand(s)

\* ---- bounds of the serial model ----
MaxLines == 2           \* lines the host sends in one behaviour

\* what the host sends: the one-byte commands, a byte that is no command,
\* and camera commands, well-formed and not
Lines ==
  { <<"i">>, <<"a">>, <<"v">>, <<"q">>, <<"p">>, <<"x">>,
    <<"C", "T", ",", "1", ",", "2">> }

\* camera commands the host may send: the example of a malformed settings
\* command, settings commands with a field that is no number, a well-formed
\* settings command, test commands, one of them ended by a newline
MalformedExample ==
  <<"C", ",", "S", ",", "1", ",", "x", ",", "1", "0", "0", ",",
    "1", "5", "0", "0">>

MalformedSettingsLines ==
  { MalformedExample,
    <<"C", "S", ",", "1", ",", "x", ",", "1", "0", "0", ",", "1", "5", "0", "0">>,
    <<"C", "S", ",", "0", ",", "5", ",", "7", ",", "x">> }

CameraLines ==
  MalformedSettingsLines \cup
  { <<"C", "S", ",", "0", ",", "3", ",", "2", ",", "4">>,
    <<"C", "T", ",", "1", ",", "2">>,
    <<"C", "T", ",", "0", "\n">> }

CallSerialBegin ==
  /\ InSetup
  /\ SysOp("SerialCommandManager.begin", 0, "void")
  /\ ser' = [ser EXCEPT !.serialReady = TRUE]
  /\ fx' = <<>>
  /\ out' = <<>>
  /\ UNCHANGED <<now, matrix, idle, vis>>

\* the host sends a line once the last one has been read
SerialReceive(line) ==
  /\ ser.rx = <<>>
  /\ ser.received < MaxLines
  /\ SysOp("receive", line, "void")
  /\ ser' = [ser EXCEPT !.rx = line, !.line = line, !.received = @ + 1]
  /\ fx' = <<>>
  /\ out' = <<>>
  /\ UNCHANGED <<now, matrix, idle, vis>>

\* ---- bounds of the pattern export ----
MaxExportWidth == 2     \* widest grid handed to exportPattern
MaxExportHeight == 2    \* tallest grid handed to exportPattern

ExportGrids(width, height) ==
  [0..(height - 1) -> [0..(width - 1) -> BOOLEAN]]

\* the main loop exports the pattern once processCommands has handled 'p'
\* ("Pattern export is handled by the main sketch")
LoopExportPattern(pattern, width, height) ==
  /\ call.op = "processCommands"
  /\ call.arg = CMD_PATTERN_EXPORT
  /\ SysOp("exportPattern", <<pattern, width, height>>, "void")
  /\ out' = ExportPattern(vis, pattern, width, height)
  /\ fx' = <<>>
  /\ UNCHANGED <<now, matrix, idle, vis, ser>>

\* processCommands; the command byte read is kept in call.arg, "" when the
\* call returned at line 46
ProcessCommands ==
  /\ pc = "idle"
  /\ LET reads == ser.serialReady /\ ser.rx # <<>>
         cmd == IF reads THEN Head(ser.rx) ELSE ""
         s0 == [cam |-> cam, idle |-> idle, matrix |-> matrix, vis |-> vis,
                rx |-> IF reads THEN Tail(ser.rx) ELSE ser.rx,
                now |-> now, out |-> <<>>, fx |-> <<>>, hw |-> <<>>,
                value |-> 0, success |-> TRUE]
         s == IF reads THEN Dispatch(s0, ser.hasCamera, cmd) ELSE s0
     IN  /\ call' = Op("processCommands", cmd)
         /\ cam' = s.cam
         /\ idle' = s.idle
         /\ matrix' = s.matrix
         /\ vis' = s.vis
         /\ ser' = [ser EXCEPT !.rx = s.rx]
         /\ now' = s.now
         /\ out' = s.out
         /\ fx' = s.fx
         /\ hw' = s.hw
  /\ ret' = "void"
  /\ busyFor' = 0
  /\ UNCHANGED <<useReady, triggerPin, pc, gen>>

(***************************************************************************)
(* VisualizationManager called directly: enable, disable, sendLEDState and *)
(* exportPattern                                                           *)
(***************************************************************************)
LEDLine(x, y, color) ==
  "LED," \o PrintInt(x) \o "," \o PrintInt(y) \o "," \o PrintInt(color)

\* faulty variant: the line is sent whether or not visualization is enabled
SendLEDState_Ungated(v, x, y, color) == <<LEDLine(x, y, color)>>

\* sendLEDState: the lines it prints
SendLEDState(v, x, y, color) ==
  IF ~v.enabled THEN <<>> ELSE <<LEDLine(x, y, color)>>

\* a VisualizationManager call: it prints and touches no other object
VisOp(name, arg, v, lines) ==
  /\ SysOp(name, arg, "void")
  /\ vis' = v
  /\ out' = lines
  /\ fx' = <<>>
  /\ UNCHANGED <<now, matrix, idle, ser>>

CallVisEnable == VisOp("enable", 0, VisEnable(vis, now), <<>>)

CallVisDisable == VisOp("disable", 0, VisDisable(vis), <<>>)

CallSendLEDState(x, y, color) ==
  VisOp("sendLEDState", <<x, y, color>>, vis, SendLEDState(vis, x, y, color))

CallExportPattern(pattern, width, height) ==
  VisOp("exportPattern", <<pattern, width, height>>, vis,
        ExportPattern(vis, pattern, width, height))

(***************************************************************************)
(* PatternGenerator.  The caller's grid (bool** pattern) is held as the    *)
(* set of its lit cells <<x, y>>.  A float is held as a whole number of    *)
(* 1/FloatScale units; the radii, spacings and pitch used here are exact   *)
(* in that unit and exact as IEEE floats, so the comparisons below are the *)
(* code's comparisons.                                                     *)
(***************************************************************************)
FloatScale == 10

\* PtycographyConfig.h, as floats
MATRIX_PHYSICAL_SIZE_MM == 128 * FloatScale
LED_PITCH_MM == 2 * FloatScale

PatternGeneratorInit(width, height, physicalSizeMM, ledPitchMM, pattern) ==
  [width |-> width, height |-> height, physicalSizeMM |-> physicalSizeMM,
   ledPitchMM |-> ledPitchMM, pattern |-> pattern]

getCenterX(g) == g.width \div 2

getCenterY(g) == g.height \div 2

\* the square of calculateDistance: the sum under its square root
calculateDistanceSquared(x1, y1, x2, y2) ==
  (x2 - x1) * (x2 - x1) + (y2 - y1) * (y2 - y1)

\* PatternGenerator::isValidCoordinate
isValidCell(g, x, y) ==
  x >= 0 /\ x < g.width /\ y >= 0 /\ y < g.height

\* round(): half away from zero, of the quotient of two floats
RoundQuotient(a, b) ==
  IF a >= 0 THEN (2 * a + b) \div (2 * b)
  ELSE 0 - ((2 * (0 - a) + b) \div (2 * b))

calculateLEDSkip(g, desiredSpacingMM) ==
  LET skip == RoundQuotient(desiredSpacingMM, g.ledPitchMM)
  IN  IF skip < 1 THEN 1 ELSE skip

\* every cell of the grid, as the clearing loops visit them
Cells(g) == (0..(g.width - 1)) \X (0..(g.height - 1))

\* the smaller of two ints
min(a, b) == IF a < b THEN a ELSE b

\* abs(distance - radius) < 1.0, distance being the root of distanceSquared:
\* radius - 1 < distance < radius + 1, compared by squares
NearRadius(distanceSquared, radius) ==
  LET lo == radius - FloatScale
      hi == radius + FloatScale
      d == FloatScale * FloatScale * distanceSquared
  IN  /\ (lo < 0 \/ lo * lo < d)
      /\ hi > 0
      /\ d < hi * hi

\* faulty variant: a ring exactly as large as the matrix allows is accepted
GenerateConcentricRings_EqualAccepted(g, innerRadius, middleRadius, outerRadius, targetSpacingMM) ==
  LET ledSkip == calculateLEDSkip(g, targetSpacingMM)
      centerX == getCenterX(g)
      centerY == getCenterY(g)
      lit == { c \in Cells(g) :
                 /\ (c[1] + c[2]) % ledSkip = 0
                 /\ LET distance ==
                          calculateDistanceSquared(c[1], c[2], centerX, centerY)
                    IN  \/ NearRadius(distance, innerRadius)
                        \/ NearRadius(distance, middleRadius)
                        \/ NearRadius(distance, outerRadius) }
  IN  IF 2 * outerRadius > FloatScale * min(g.width, g.height)
      THEN [gen |-> [g EXCEPT !.pattern = {}], ok |-> FALSE]
      ELSE [gen |-> [g EXCEPT !.pattern = lit], ok |-> lit # {}]

\* the grid is cleared, then the outer radius is validated against
\* maxRadius = min(_width, _height) / 2.0, then the rings are drawn
GenerateConcentricRings(g, innerRadius, middleRadius, outerRadius, targetSpacingMM) ==
  LET ledSkip == calculateLEDSkip(g, targetSpacingMM)
      centerX == getCenterX(g)
      centerY == getCenterY(g)
      lit == { c \in Cells(g) :
                 /\ (c[1] + c[2]) % ledSkip = 0
                 /\ LET distance ==
                          calculateDistanceSquared(c[1], c[2], centerX, centerY)
                    IN  \/ NearRadius(distance, innerRadius)
                        \/ NearRadius(distance, middleRadius)
                        \/ NearRadius(distance, outerRadius) }
  IN  IF 2 * outerRadius >= FloatScale * min(g.width, g.height)
      THEN [gen |-> [g EXCEPT !.pattern = {}], ok |-> FALSE]
      ELSE [gen |-> [g EXCEPT !.pattern = lit], ok |-> lit # {}]

\* faulty variant: the centre is lit on top of what the grid held
GenerateCenterOnly_NoClear(g) ==
  LET centerX == getCenterX(g)
      centerY == getCenterY(g)
  IN  IF isValidCell(g, centerX, centerY)
      THEN [gen |-> [g EXCEPT !.pattern = @ \cup {<<centerX, centerY>>}],
            ok |-> TRUE]
      ELSE [gen |-> g, ok |-> FALSE]

GenerateCenterOnly(g) ==
  LET centerX == getCenterX(g)
      centerY == getCenterY(g)
  IN  IF isValidCell(g, centerX, centerY)
      THEN [gen |-> [g EXCEPT !.pattern = {<<centerX, centerY>>}],
            ok |-> TRUE]
      ELSE [gen |-> [g EXCEPT !.pattern = {}], ok |-> FALSE]

\* the points the spiral loop computes, of which the valid ones on the skip
\* stride are lit
SpiralCells(g, ledSkip, points) ==
  { c \in points : isValidCell(g, c[1], c[2])
                   /\ (c[1] + c[2]) % ledSkip = 0 }

\* faulty variant: the centre goes through the skip filter like any point
GenerateSpiral_CentreFiltered(g, spacingMM, turns, points) ==
  LET centerX == getCenterX(g)
      centerY == getCenterY(g)
      ledSkip == calculateLEDSkip(g, spacingMM)
      visited == IF turns > 0 THEN points ELSE {}
      lit == SpiralCells(g, ledSkip, {<<centerX, centerY>>} \cup visited)
  IN  [gen |-> [g EXCEPT !.pattern = lit], ok |-> lit # {}]

\* the grid is cleared, the centre is lit, then the loop lights the points
\* of the spiral.  The loop runs while angle < 2 * PI * turns, so not at all
\* for turns <= 0.  Its points come from cos() and sin(): points is what
\* they yielded, any set of coordinates, inside the grid or not.
GenerateSpiral(g, spacingMM, turns, points) ==
  LET centerX == getCenterX(g)
      centerY == getCenterY(g)
      ledSkip == calculateLEDSkip(g, spacingMM)
      visited == IF turns > 0 THEN points ELSE {}
      lit == {<<centerX, centerY>>} \cup SpiralCells(g, ledSkip, visited)
      ledCount == 1 + Cardinality(SpiralCells(g, ledSkip, visited))
  IN  [gen |-> [g EXCEPT !.pattern = lit], ok |-> ledCount > 0]

\* the x (or y) values the grid loop visits: 0, spacing, 2 * spacing, ...
\* below the limit
GridSteps(limit, spacing) ==
  { i * spacing : i \in 0..((limit - 1) \div spacing) }

\* faulty variant: the spacing is validated before the grid is cleared
GenerateGrid_ValidateFirst(g, spacingX, spacingY) ==
  IF spacingX < 1 \/ spacingY < 1
  THEN [gen |-> g, ok |-> FALSE]
  ELSE LET lit == { c \in GridSteps(g.width, spacingX)
                            \X GridSteps(g.height, spacingY) :
                      isValidCell(g, c[1], c[2]) }
       IN  [gen |-> [g EXCEPT !.pattern = lit], ok |-> lit # {}]

\* faulty variant: the loops start at the spacing instead of 0
GenerateGrid_FromSpacing(g, spacingX, spacingY) ==
  IF spacingX < 1 \/ spacingY < 1
  THEN [gen |-> [g EXCEPT !.pattern = {}], ok |-> FALSE]
  ELSE LET lit == { c \in (GridSteps(g.width, spacingX) \ {0})
                            \X (GridSteps(g.height, spacingY) \ {0}) :
                      isValidCell(g, c[1], c[2]) }
       IN  [gen |-> [g EXCEPT !.pattern = lit], ok |-> lit # {}]

\* the grid is cleared, then the spacing is validated, then the loops light
\* the cells they step on
GenerateGrid(g, spacingX, spacingY) ==
  IF spacingX < 1 \/ spacingY < 1
  THEN [gen |-> [g EXCEPT !.pattern = {}], ok |-> FALSE]
  ELSE LET lit == { c \in GridSteps(g.width, spacingX)
                            \X GridSteps(g.height, spacingY) :
                      isValidCell(g, c[1], c[2]) }
       IN  [gen |-> [g EXCEPT !.pattern = lit], ok |-> lit # {}]

PATTERN_CONCENTRIC_RINGS == 0
PATTERN_CENTER_ONLY == 1
PATTERN_SPIRAL == 2
PATTERN_GRID == 3

\* faulty variant: the rings take the radii of the configuration, 16, 24, 31
GeneratePattern_ConfiguredRadii(g, type, points) ==
  CASE type = PATTERN_CONCENTRIC_RINGS ->
         GenerateConcentricRings(g, 16 * FloatScale, 24 * FloatScale,
                                 31 * FloatScale, 4 * FloatScale)
    [] type = PATTERN_CENTER_ONLY -> GenerateCenterOnly(g)
    [] type = PATTERN_SPIRAL -> GenerateSpiral(g, 4 * FloatScale, 3, points)
    [] type = PATTERN_GRID -> GenerateGrid(g, 4, 4)
    [] OTHER -> [gen |-> g, ok |-> FALSE]

\* generatePattern: the switch over the type, points being what the spiral
\* loop computes
GeneratePattern(g, type, points) ==
  CASE type = PATTERN_CONCENTRIC_RINGS ->
         GenerateConcentricRings(g, 27 * FloatScale, 37 * FloatScale,
                                 47 * FloatScale, 4 * FloatScale)
    [] type = PATTERN_CENTER_ONLY -> GenerateCenterOnly(g)
    [] type = PATTERN_SPIRAL -> GenerateSpiral(g, 4 * FloatScale, 3, points)
    [] type = PATTERN_GRID -> GenerateGrid(g, 4, 4)
    [] OTHER -> [gen |-> g, ok |-> FALSE]

countActiveLEDs(g) == Cardinality(g.pattern)

\* a PatternGenerator call: it touches the grid and nothing else.  The call
\* record keeps, as lit, how many cells of the grid were lit before the call.
PatternOp(name, arg, r) ==
  /\ pc = "idle"
  /\ call' = Op(name, arg)
  /\ ret' = r.ok
  /\ gen' = r.gen
  /\ UNCHANGED <<now, camVars, matrix, idle, vis, ser, fx, out>>

\* radii (inner, middle, outer) the rings are asked for, as floats: 0.5,
\* 1.0 and 1.5 or 2.0; 5.0, 10.0 and 31.5 or 32.0; the defaults 27, 37, 47
RingRadii ==
  { <<5, 10, 15>>, <<5, 10, 20>>, <<50, 100, 315>>, <<50, 100, 320>>,
    <<270, 370, 470>> }

\* spacings in mm, as floats: 0.0, 4.0 and 6.0 (skip strides 1, 2 and 3)
SpacingsMM == { 0, 4 * FloatScale, 6 * FloatScale }

CallGenerateConcentricRings(radii, targetSpacingMM) ==
  PatternOp("generateConcentricRings",
            [lit |-> countActiveLEDs(gen), radii |-> radii,
             spacing |-> targetSpacingMM],
            GenerateConcentricRings(gen, radii[1], radii[2], radii[3],
                                    targetSpacingMM))

CallGenerateCenterOnly ==
  PatternOp("generateCenterOnly", [lit |-> countActiveLEDs(gen)],
            GenerateCenterOnly(gen))

\* coordinates the spiral loop may compute: a corner, the centre, its
\* neighbour and a point off the grid
SpiralPoints(g) ==
  { <<0, 0>>, <<getCenterX(g), getCenterY(g)>>,
    <<getCenterX(g) + 1, getCenterY(g)>>, <<g.width, g.height>> }

SpiralTurns == { 0, 3 }

CallGenerateSpiral(spacingMM, turns, points) ==
  PatternOp("generateSpiral",
            [lit |-> countActiveLEDs(gen), spacing |-> spacingMM,
             turns |-> turns],
            GenerateSpiral(gen, spacingMM, turns, points))

GridSpacings == { 0 - 1, 0, 1, 2, 8 }

CallGenerateGrid(spacingX, spacingY) ==
  PatternOp("generateGrid",
            [lit |-> countActiveLEDs(gen), spacingX |-> spacingX,
             spacingY |-> spacingY],
            GenerateGrid(gen, spacingX, spacingY))

\* the types generatePattern is called with: the four it knows, one below
\* and one above
PatternTypes == (0 - 1)..4

CallGeneratePattern(type, points) ==
  PatternOp("generatePattern", [lit |-> countActiveLEDs(gen), type |-> type],
            GeneratePattern(gen, type, points))

(***************************************************************************)
(* The initial states: every object as its constructor leaves it           *)
(***************************************************************************)
ConstructAll(t, ready, idleTimeout, blinkInterval, blinkDuration, hasCamera, width, height, pattern) ==
  /\ now = t
  /\ useReady = ready
  /\ cam = CameraManagerInit
  /\ triggerPin = LOW
  /\ busyFor = 0
  /\ pc = "idle"
  /\ call = Op("construct", 0)
  /\ hw = <<>>
  /\ ret = "void"
  /\ matrix = LEDMatrixInit
  /\ idle = IdleManagerInit(idleTimeout, blinkInterval, blinkDuration)
  /\ vis = VisualizationManagerInit
  /\ ser = SerialCommandManagerInit(hasCamera)
  /\ fx = <<>>
  /\ out = <<>>
  /\ gen = PatternGeneratorInit(width, height, MATRIX_PHYSICAL_SIZE_MM,
                                LED_PITCH_MM, pattern)

\* the sketch's objects: the pattern generator for the whole matrix, its grid
\* all false
Construct(t, ready, idleTimeout, blinkInterval, blinkDuration, hasCamera) ==
  ConstructAll(t, ready, idleTimeout, blinkInterval, blinkDuration, hasCamera,
               MATRIX_WIDTH, MATRIX_HEIGHT, {})

\* the camera alone, in either build, the other objects as the sketch's
\* configuration constants construct them
Init ==
  \E t \in StartTimes, ready \in {0, 1} :
    Construct(t, ready, IDLE_TIMEOUT, IDLE_BLINK_INTERVAL, IDLE_BLINK_DURATION,
              TRUE)

\* the sketch with a camera attached, receiving camera commands
InitCamCmd ==
  \E t \in StartTimes :
    Construct(t, 0, IDLE_TIMEOUT, IDLE_BLINK_INTERVAL, IDLE_BLINK_DURATION,
              TRUE)

\* the matrix alone
InitMatrix ==
  Construct(U32(0), 0, IDLE_TIMEOUT, IDLE_BLINK_INTERVAL, IDLE_BLINK_DURATION,
            TRUE)

\* the idle manager with short timeouts, so that they expire in the model
InitIdle ==
  \E t \in StartTimes, it \in IdleTimeouts, bi \in BlinkIntervals,
     bd \in BlinkDurations :
    Construct(t, 0, it, bi, bd, TRUE)

\* the whole sketch: serial commands arrive while time passes
InitSerial ==
  \E t \in StartTimes, hasCamera \in BOOLEAN :
    Construct(t, 0, MaxIdleTimeout, MaxBlinkInterval, 1, hasCamera)

\* the camera driven through its public interface
NextCam ==
  \/ CameraBegin
  \/ \E w \in BOOLEAN : TriggerCamera(w)
  \/ TriggerPreDelay
  \/ PulseHigh
  \/ PulseLow
  \/ ReadyPoll
  \/ TriggerPostDelay
  \/ \E w \in TestWidthArgs : TestTrigger(w)
  \/ TestReturn
  \/ \E b \in BOOLEAN : SetEnabled(b)
  \/ \E w \in {0, 1} : SetPulseWidth(w)
  \/ \E d \in {-1, 0} : SetPreDelay(d)
  \/ \E d \in {-1, 0} : SetPostDelay(d)
  \/ GetErrorCode
  \/ ClearErrorCode

SpecCam == Init /\ [][NextCam]_vars

\* a step of the triggerCamera or testTrigger call in progress
CallStep ==
  \/ TriggerPreDelay
  \/ PulseHigh
  \/ PulseLow
  \/ ReadyPoll
  \/ TriggerPostDelay
  \/ TestReturn

\* the processor keeps executing the call in progress: delay() and the
\* statements between the delays always complete.  Every such step moves
\* the position in the call or the clock.
SpecCamLive == Init /\ [][NextCam]_vars /\ WF_<<pc, now>>(CallStep)

\* the settings mutators alone, over the boundary values of their ranges
NextSet ==
  \/ \E b \in BOOLEAN : SetEnabled(b)
  \/ \E w \in PulseWidthArgs : SetPulseWidth(w)
  \/ \E d \in PreDelayArgs : SetPreDelay(d)
  \/ \E d \in PostDelayArgs : SetPostDelay(d)

SpecSet == Init /\ [][NextSet]_vars

\* the idle manager driven through its public interface while time passes
NextIdle ==
  \/ Tick
  \/ CallMatrixBegin
  \/ CallIdleBegin
  \/ CallEnterIdleMode
  \/ CallExitIdleMode
  \/ CallUpdateActivityTime
  \/ CallUpdate

SpecIdle == InitIdle /\ [][NextIdle]_vars

\* the sketch's loop: commands are processed and the idle manager updated
NextSerial ==
  \/ Tick
  \/ CallIdleBegin
  \/ CallSerialBegin
  \/ \E line \in Lines : SerialReceive(line)
  \/ ProcessCommands
  \/ CallUpdate

SpecSerial == InitSerial /\ [][NextSerial]_vars

\* camera commands arrive and are processed byte by byte
NextCamCmd ==
  \/ CallSerialBegin
  \/ \E line \in CameraLines : SerialReceive(line)
  \/ ProcessCommands
  \/ CallEnterIdleMode

SpecCamCmd == InitCamCmd /\ [][NextCamCmd]_vars

\* the bytes the host writes for a number
RECURSIVE DecimalBytes(_)
DecimalBytes(n) ==
  LET digit == <<"0", "1", "2", "3", "4", "5", "6", "7", "8", "9">>[(n % 10) + 1]
  IN  IF n < 10 THEN <<digit>> ELSE Append(DecimalBytes(n \div 10), digit)

Comma == <<",">>

\* a settings line: four fields, sep[k] standing after the k-th of them
SettingsBytes(f, sep) ==
  <<"C", "S", ",">> \o DecimalBytes(f[1]) \o sep[1] \o DecimalBytes(f[2])
    \o sep[2] \o DecimalBytes(f[3]) \o sep[3] \o DecimalBytes(f[4])
    \o <<"\n">>

TestBytes(f) ==
  <<"C", "T", ",">> \o DecimalBytes(f[1]) \o Comma \o DecimalBytes(f[2])
    \o <<"\n">>

\* fields in range: enabled, preDelay, pulseWidth, postDelay
SettingsFields == { <<0, 3, 2, 4>>, <<1, 5000, 1000, 10000>>, <<2, 0, 1, 0>> }

AllCommas == [k \in 1..3 |-> Comma]

\* one of the three separators left out or replaced by a blank
BrokenSeparators ==
  {[AllCommas EXCEPT ![k] = other] : k \in 1..3, other \in {<<>>, <<" ">>}}

\* enabled, pulseWidth
TestFields == { <<1, 2>>, <<0, 2>>, <<2, 7>> }

SettingsAndTestLines ==
  {SettingsBytes(f, AllCommas) : f \in SettingsFields}
    \cup {SettingsBytes(f, sep) : f \in SettingsFields, sep \in BrokenSeparators}
    \cup {TestBytes(f) : f \in TestFields}

\* the host sends settings and test commands, each ended by a newline
NextCamSet ==
  \/ CallSerialBegin
  \/ \E line \in SettingsAndTestLines : SerialReceive(line)
  \/ ProcessCommands

SpecCamSet == InitCamCmd /\ [][NextCamSet]_vars

\* the LED matrix driven through its public interface
\* the pattern generator alone, for the whole matrix and for small grids,
\* the caller's grid holding anything before the first call
GridSizes == { <<MATRIX_WIDTH, MATRIX_HEIGHT>>, <<4, 3>>, <<1, 1>> }

PriorPatterns == { {}, {<<0, 0>>} }

InitPattern ==
  \E size \in GridSizes, pattern \in PriorPatterns :
    ConstructAll(U32(0), 0, IDLE_TIMEOUT, IDLE_BLINK_INTERVAL,
                 IDLE_BLINK_DURATION, TRUE, size[1], size[2], pattern)

NextPattern ==
  \/ \E radii \in RingRadii, spacing \in SpacingsMM :
       CallGenerateConcentricRings(radii, spacing)
  \/ CallGenerateCenterOnly
  \/ \E spacing \in SpacingsMM, turns \in SpiralTurns :
       \E p1 \in SpiralPoints(gen), p2 \in SpiralPoints(gen) :
         CallGenerateSpiral(spacing, turns, {p1, p2})
  \/ \E spacingX \in GridSpacings, spacingY \in GridSpacings :
       CallGenerateGrid(spacingX, spacingY)

SpecPattern == InitPattern /\ [][NextPattern]_vars

\* the generators called one after the other, each on the grid the one before
\* left: accepted and rejected rings, both strides of the skip filter
PairRadii == { <<5, 10, 15>>, <<270, 370, 470>> }
PairSpacingsMM == { 0, 4 * FloatScale }

NextPatternPair ==
  \/ \E radii \in PairRadii, spacing \in PairSpacingsMM :
       CallGenerateConcentricRings(radii, spacing)
  \/ CallGenerateCenterOnly
  \/ \E spacing \in PairSpacingsMM, turns \in SpiralTurns :
       \E p1 \in SpiralPoints(gen), p2 \in SpiralPoints(gen) :
         CallGenerateSpiral(spacing, turns, {p1, p2})
  \/ \E spacingX \in GridSpacings, spacingY \in GridSpacings :
       CallGenerateGrid(spacingX, spacingY)

SpecPatternPair == InitPattern /\ [][NextPatternPair]_vars

\* generatePattern called for every type, on the grid a grid call or the
\* caller left
NextDispatch ==
  \/ \E type \in PatternTypes :
       \E p1 \in SpiralPoints(gen), p2 \in SpiralPoints(gen) :
         CallGeneratePattern(type, {p1, p2})
  \/ \E spacingX \in GridSpacings, spacingY \in GridSpacings :
       CallGenerateGrid(spacingX, spacingY)

SpecDispatch == InitPattern /\ [][NextDispatch]_vars

\* the visualization sink alone, called with LED states and small grids
SinkXs == { 0, 63 }

SinkYs == { 0, 31 }

SinkColors == { 0, 5, 7 }

NextSink ==
  \/ CallVisEnable
  \/ CallVisDisable
  \/ \E x \in SinkXs, y \in SinkYs, color \in SinkColors :
       CallSendLEDState(x, y, color)
  \/ \E width \in 1..MaxExportWidth, height \in 1..MaxExportHeight :
       \E pattern \in ExportGrids(width, height) :
         CallExportPattern(pattern, width, height)

SpecSink == InitCamCmd /\ [][NextSink]_vars

NextMatrix ==
  \/ CallMatrixBegin
  \/ \E x \in SetLEDXs, y \in SetLEDYs, color \in SetLEDColors :
       CallSetLED(x, y, color)
  \/ CallClearDisplay
  \/ \E dirty \in BOOLEAN : CallSetDisplayDirty(dirty)

SpecMatrix == InitMatrix /\ [][NextMatrix]_vars

\* the visualization commands and the pattern export of the main loop
VisLines == { <<CMD_VIS_START>>, <<CMD_VIS_STOP>>, <<CMD_PATTERN_EXPORT>> }

NextVis ==
  \/ CallSerialBegin
  \/ \E line \in VisLines : SerialReceive(line)
  \/ ProcessCommands
  \/ \E width \in 1..MaxExportWidth, height \in 1..MaxExportHeight :
       \E pattern \in ExportGrids(width, height) :
         LoopExportPattern(pattern, width, height)

SpecVis == InitCamCmd /\ [][NextVis]_vars

(***************************************************************************)
(* Properties of CameraManager                                             *)
(***************************************************************************)
Events(seq) == {seq[i] : i \in 1..Len(seq)}

\* the phase of triggerCamera a hardware event belongs to
Phase(e) ==
  CASE e = "preDelay" -> 1
    [] e = "pinHigh" -> 2
    [] e = "pulseDelay" -> 3
    [] e = "pinLow" -> 4
    [] e = "readyRead" -> 5
    [] e = "readyDelay" -> 5
    [] e = "postDelay" -> 6

\* a triggerCamera call that has returned after sending its pulse
TriggerReturned ==
  pc = "idle" /\ call.op = "triggerCamera" /\ "pinLow" \in Events(hw)

\* C1: in every triggerCamera call with the camera enabled the hardware
\* events come in the order pre-delay, pin high, pulse hold, pin low,
\* ready-wait polling, post-delay: an event of a later phase is never
\* followed by one of an earlier phase, and only ready-wait polls repeat.
C1_TriggerOrder ==
  call.op = "triggerCamera" =>
    /\ \A i, j \in 1..Len(hw) :
         i < j => \/ Phase(hw[i]) < Phase(hw[j])
                  \/ Phase(hw[i]) = 5 /\ Phase(hw[j]) = 5
    /\ TriggerReturned => {"pinHigh", "pinLow"} \subseteq Events(hw)
    /\ triggerPin = HIGH <=> pc = "pulseLow"

C1_Witness ==
  /\ TriggerReturned
  /\ ret = TRUE
  /\ {"preDelay", "readyDelay", "postDelay"} \subseteq Events(hw)

\* C2: in a build with the ready signal, a triggerCamera(true) call with
\* the camera enabled whose busy line stays asserted longer than
\* CAMERA_READY_TIMEOUT returns false with error code timeout.
C2_ReadyTimeout ==
  (TriggerReturned /\ call.arg = TRUE /\ useReady = 1
     /\ busyFor > CAMERA_READY_TIMEOUT)
    => (ret = FALSE /\ cam.errorCode = CAMERA_ERROR_TIMEOUT
          /\ ~cam.triggerActive)

C2_Witness ==
  /\ TriggerReturned /\ call.arg = TRUE /\ useReady = 1
  /\ busyFor > CAMERA_READY_TIMEOUT
  /\ ret = FALSE
  /\ cam.errorCode = CAMERA_ERROR_TIMEOUT

\* C3 as claimed: a non-none error code keeps its value over every step
\* that is not clearErrorCode.
C3_LatchedUntilCleared ==
  [][(cam.errorCode # CAMERA_ERROR_NONE /\ call'.op # "clearErrorCode")
       => cam'.errorCode = cam.errorCode]_vars

\* C3 as amended: a non-none error code changes only by being reset to none,
\* and only by clearErrorCode or on entry to the next triggerCamera or
\* testTrigger call; setters, begin and getErrorCode leave it alone.
C3_LatchedUntilNextCall ==
  [][(cam.errorCode # CAMERA_ERROR_NONE /\ cam'.errorCode # cam.errorCode)
       => /\ cam'.errorCode = CAMERA_ERROR_NONE
          /\ pc = "idle"
          /\ call'.op \in {"clearErrorCode", "triggerCamera", "testTrigger"}]_vars

C3_Witness ==
  /\ call.op = "getErrorCode"
  /\ ret = CAMERA_ERROR_TIMEOUT
  /\ cam.errorCode = CAMERA_ERROR_TIMEOUT

\* C4: with enabled = false, triggerCamera returns true at once: no delay
\* (the clock does not move), no pin change, no hardware event, and the
\* trigger count, last-trigger time and active flag are as before.
C4_DisabledIsNoOp ==
  [][(pc = "idle" /\ ~cam.enabled /\ call'.op = "triggerCamera")
       => /\ pc' = "idle"
          /\ ret' = TRUE
          /\ now' = now
          /\ triggerPin' = triggerPin
          /\ hw' = <<>>
          /\ cam'.triggerCount = cam.triggerCount
          /\ cam'.lastTriggerTime = cam.lastTriggerTime
          /\ cam'.triggerActive = cam.triggerActive]_vars

C4_Witness ==
  /\ pc = "idle" /\ call.op = "triggerCamera" /\ call.arg = TRUE
  /\ ~cam.enabled
  /\ ret = TRUE
  /\ cam.triggerCount = 1
  /\ hw = <<>>

\* C5: the trigger count never decreases; it grows by exactly one in the
\* step that ends a pulse on the trigger pin (HIGH to LOW) and in no other
\* step, and the last-trigger time is set to the clock in that same step
\* and in no other.
C5_CountsPulses ==
  [][/\ cam'.triggerCount >= cam.triggerCount
     /\ (triggerPin = HIGH /\ triggerPin' = LOW)
          <=> cam'.triggerCount = cam.triggerCount + 1
     /\ (triggerPin = HIGH /\ triggerPin' = LOW)
          => cam'.lastTriggerTime = now'
     /\ cam'.triggerCount = cam.triggerCount
          => cam'.lastTriggerTime = cam.lastTriggerTime]_vars

C5_Witness ==
  /\ pc = "idle" /\ call.op = "testTrigger"
  /\ cam.triggerCount = 2
  /\ cam.lastTriggerTime = now
  /\ triggerPin = LOW

\* C6: each setter stores its argument when it is in range (pulse width
\* 1..1000, pre-delay 0..5000, post-delay 0..10000) and otherwise leaves
\* the stored value as it was, changes no other field, and so the three
\* values stay in their ranges.
C6_SetterStep ==
  /\ call'.op = "setPulseWidth" =>
       cam' = [cam EXCEPT !.pulseWidth =
                 IF call'.arg \in 1..1000 THEN call'.arg ELSE @]
  /\ call'.op = "setPreDelay" =>
       cam' = [cam EXCEPT !.preDelay =
                 IF call'.arg \in 0..5000 THEN call'.arg ELSE @]
  /\ call'.op = "setPostDelay" =>
       cam' = [cam EXCEPT !.postDelay =
                 IF call'.arg \in 0..10000 THEN call'.arg ELSE @]

C6_Setters ==
  /\ [](/\ cam.pulseWidth \in 1..1000
        /\ cam.preDelay \in 0..5000
        /\ cam.postDelay \in 0..10000)
  /\ [][C6_SetterStep]_vars

C6_Witness ==
  /\ call.op = "setPulseWidth" /\ call.arg = 1001
  /\ cam.pulseWidth = 1000
  /\ cam.preDelay = 5000
  /\ cam.postDelay = 0


\* the colour pins that clearDisplay drives LOW
ColourPinsLow(m) ==
  /\ m.pin.R0 = LOW /\ m.pin.R1 = LOW
  /\ m.pin.G0 = LOW /\ m.pin.G1 = LOW
  /\ m.pin.B0 = LOW /\ m.pin.B1 = LOW

\* C7: an update() call made in Active when at least idleTimeout ms have
\* passed since the last activity leaves the manager Idle, having cleared the
\* display once and set the heartbeat timer to the current time; an update()
\* call made in Idle leaves it Idle without running the transition again: it
\* either changes nothing or, when the heartbeat is due, blinks.
C7_UpdateStep ==
  call'.op = "update" =>
    /\ (~idle.idleMode
        /\ Ge32(Sub32(now, idle.lastActivityTime), idle.idleTimeout)) =>
          /\ idle'.idleMode
          /\ fx' = <<"clearDisplay">>
          /\ ColourPinsLow(matrix') /\ ~matrix'.displayDirty
          /\ idle'.lastBlinkTime = now
          /\ idle'.lastActivityTime = idle.lastActivityTime
    /\ idle.idleMode =>
          /\ idle'.idleMode
          /\ idle'.lastActivityTime = idle.lastActivityTime
          /\ \/ fx' = <<>> /\ idle' = idle /\ matrix' = matrix
             \/ /\ fx' = <<"setLED", "clearDisplay">>
                /\ Ge32(Sub32(now, idle.lastBlinkTime), idle.blinkInterval)
                /\ idle' = [idle EXCEPT !.lastBlinkTime = now]

C7_IdleAfterTimeout == [][C7_UpdateStep]_vars

\* update() has just moved the manager to Idle, exactly idleTimeout ms after
\* the last activity, with a timeout that is not zero
C7_Witness ==
  /\ call.op = "update"
  /\ idle.idleMode
  /\ fx = <<"clearDisplay">>
  /\ idle.idleTimeout = U32(MaxIdleTimeout)
  /\ Sub32(now, idle.lastActivityTime) = idle.idleTimeout

\* C8: the idle flag goes from true to false only in an exitIdleMode call,
\* never in update() or updateActivityTime(), whatever the clock reads; and
\* updateActivityTime changes the last-activity timestamp and nothing else.
C8_Step ==
  /\ (idle.idleMode /\ ~idle'.idleMode) => call'.op = "exitIdleMode"
  /\ call'.op = "updateActivityTime" =>
       /\ idle' = [idle EXCEPT !.lastActivityTime = now]
       /\ fx' = <<>>
       /\ UNCHANGED <<now, matrix, cam, vis, ser>>

C8_OnlyExitLeavesIdle == [][C8_Step]_vars

\* updateActivityTime was called in Idle, after the timeout had passed again,
\* and the manager is still Idle
C8_Witness ==
  /\ call.op = "updateActivityTime"
  /\ idle.idleMode
  /\ idle.lastActivityTime = now
  /\ Gt32(Sub32(now, idle.lastBlinkTime), idle.idleTimeout)

CommandBytes ==
  {CMD_IDLE_ENTER, CMD_IDLE_EXIT, CMD_VIS_START, CMD_VIS_STOP,
   CMD_PATTERN_EXPORT, CMD_SET_CAMERA}

\* C9: when processCommands reads a byte that is no command, the last
\* activity time becomes the current time and the manager is Active
\* afterwards, having left Idle through exitIdleMode (display marked dirty) if
\* it was Idle; the camera and the visualization are as before.
C9_Step ==
  (call'.op = "processCommands" /\ call'.arg \notin CommandBytes \cup {""}) =>
    /\ ~idle'.idleMode
    /\ idle'.lastActivityTime = now'
    /\ now' = now
    /\ idle.idleMode => fx' = <<"setDisplayDirty">> /\ matrix'.displayDirty
    /\ ~idle.idleMode => fx' = <<>> /\ matrix' = matrix
    /\ cam' = cam
    /\ vis' = vis

C9_UnknownByteIsActivity == [][C9_Step]_vars

\* the byte x was read while Idle: the manager left Idle and the idle clock
\* was reset
C9_Witness ==
  /\ call.op = "processCommands"
  /\ call.arg = "x"
  /\ out = <<"Exiting idle mode due to serial activity">>
  /\ ~idle.idleMode
  /\ idle.lastActivityTime = now

\* C10: after processCommands has handled 'i' the manager is Idle and after
\* 'a' it is Active, whatever it was before; 'i' while Idle and 'a' while
\* Active change nothing of the idle state: no timestamp, no display clear,
\* no dirty mark.
C10_Step ==
  call'.op = "processCommands" =>
    /\ call'.arg = CMD_IDLE_ENTER =>
         /\ idle'.idleMode
         /\ idle.idleMode => idle' = idle /\ matrix' = matrix /\ fx' = <<>>
         /\ ~idle.idleMode => fx' = <<"clearDisplay">>
    /\ call'.arg = CMD_IDLE_EXIT =>
         /\ ~idle'.idleMode
         /\ ~idle.idleMode => idle' = idle /\ matrix' = matrix /\ fx' = <<>>
         /\ idle.idleMode => fx' = <<"setDisplayDirty">>

C10_IdleCommands == [][C10_Step]_vars

\* 'i' was handled while the manager was already Idle, and nothing was done
C10_Witness ==
  /\ call.op = "processCommands"
  /\ call.arg = CMD_IDLE_ENTER
  /\ idle.idleMode
  /\ fx = <<>>
  /\ out = <<>>
  /\ ser.received = MaxLines

\* the settings a camera command can change
CameraSettingsOf(c) == <<c.enabled, c.preDelay, c.pulseWidth, c.postDelay>>

CameraErrorLines ==
  {"ERROR: Invalid camera command type",
   "ERROR: Invalid camera command format",
   "ERROR: Invalid camera settings format"}

\* C11: while processCommands works through the bytes of a settings command
\* with a field that is no number, the camera's enabled flag, pre-delay,
\* pulse width and post-delay keep their values, and the call that reads the
\* command byte C prints a format-error line.
C11_Step ==
  (call'.op = "processCommands" /\ call'.arg # ""
   /\ ser.line \in MalformedSettingsLines) =>
    /\ CameraSettingsOf(cam') = CameraSettingsOf(cam)
    /\ call'.arg = CMD_SET_CAMERA =>
         \E k \in 1..Len(out') : out'[k] \in CameraErrorLines

C11_MalformedSettingsRejected == [][C11_Step]_vars

\* what a handler sees when the receive buffer holds rx
HandlerState(rx) ==
  [cam |-> cam, idle |-> idle, matrix |-> matrix, vis |-> vis, rx |-> rx,
   now |-> now, out |-> <<>>, fx |-> <<>>, hw |-> <<>>,
   value |-> 0, success |-> TRUE]

\* the line is a camera command whose parse ends in an error line
CameraParseFails(line) ==
  /\ line # <<>>
  /\ Head(line) = CMD_SET_CAMERA
  /\ LET s == HandleCameraCommand(HandlerState(Tail(line)), ser.hasCamera)
     IN  \E k \in 1..Len(s.out) : s.out[k] \in CameraErrorLines

\* C12: of a line whose camera command fails to parse, processCommands
\* dispatches the command byte only (the whole line is still in the buffer
\* when the byte is read); what the failed parse left over is never
\* dispatched.
C12_Step ==
  (call'.op = "processCommands" /\ call'.arg # ""
   /\ CameraParseFails(ser.line)) =>
    ser.rx = ser.line

C12_LeftoverNotDispatched == [][C12_Step]_vars

\* the grid handed to the export in progress, its width and its height
ExportedGrid == call.arg[1]
ExportedWidth == call.arg[2]
ExportedHeight == call.arg[3]

LitCells(pattern, width, height) ==
  {c \in (0..(width - 1)) \X (0..(height - 1)) : pattern[c[2]][c[1]]}

\* a PATTERN_START line, one PATTERN,x,y line for each lit cell and no
\* other, then a PATTERN_END line
IsPatternBlock(lines, pattern, width, height) ==
  /\ Len(lines) = Cardinality(LitCells(pattern, width, height)) + 2
  /\ lines[1] = "PATTERN_START"
  /\ lines[Len(lines)] = "PATTERN_END"
  /\ {lines[k] : k \in 2..(Len(lines) - 1)}
       = {PatternLine(c[1], c[2]) : c \in LitCells(pattern, width, height)}

C14_Step ==
  (call'.op = "setLED"
   /\ \/ call'.arg[1] \notin 0..63
      \/ call'.arg[2] \notin 0..63
      \/ call'.arg[3] \notin 0..7) =>
    /\ ret' = FALSE
    /\ matrix' = matrix

C14_InvalidSetLEDRejected == [][C14_Step]_vars

\* setLED was called with color 8 at a valid place while the display was
\* clean and unblanked, and returned false
C14_Witness ==
  /\ call.op = "setLED"
  /\ call.arg[1] \in 0..63 /\ call.arg[2] \in 0..63 /\ call.arg[3] = 8
  /\ ret = FALSE
  /\ ~matrix.displayDirty
  /\ matrix.pin.BL = LOW

\* C15: when clearDisplay returns, whatever the state before, the dirty flag
\* is false, the blank line is HIGH (display off), the six colour lines are
\* LOW, and each of the rows 0..63 was addressed and given 64 clock pulses
\* with no colour line HIGH.
C15_Step ==
  call'.op = "clearDisplay" =>
    /\ ~matrix'.displayDirty
    /\ matrix'.pin.BL = HIGH
    /\ ColourLines(matrix'.pin) = AllLow
    /\ matrix'.shift.rows = 0..63
    /\ matrix'.shift.clocks = 64
    /\ matrix'.shift.high = {}

C15_ClearDisplayBlanks == [][C15_Step]_vars

\* clearDisplay has returned on a matrix that begin() had initialised: the
\* address lines still hold the address of the last row
C15_Witness ==
  /\ call.op = "clearDisplay"
  /\ matrix.rowAddressCache = InitAddressCache
  /\ matrix.pin.A4 = HIGH
  /\ matrix.pin.BL = HIGH
  /\ ~matrix.displayDirty

\* bit k of n
BitOf(n, k) == (n \div (2 ^ k)) % 2

\* the cache holds, for every row, the 5-bit encoding of the row mod 32
CacheEncodesRows(cache) ==
  \A y \in 0..63 : \A k \in 0..4 : cache[y][k + 1] = BitOf(y % 32, k)

\* C16: begin() leaves the cache holding, for every row y, the 5-bit binary
\* encoding of y mod 32, and from then on no call changes any cache entry.
C16_Step ==
  /\ call'.op = "LEDMatrix.begin" => CacheEncodesRows(matrix'.rowAddressCache)
  /\ CacheEncodesRows(matrix.rowAddressCache) =>
       matrix'.rowAddressCache = matrix.rowAddressCache

C16_CacheEncodesRows == [][C16_Step]_vars

\* a setLED call has written the panel after begin(), and the cache still
\* holds the encoding
C16_Witness ==
  /\ call.op = "setLED"
  /\ ret = TRUE
  /\ CacheEncodesRows(matrix.rowAddressCache)

(***************************************************************************)
(* PatternGenerator: rejected parameters, the spiral's centre, the grid    *)
(***************************************************************************)
\* the step is a generateGrid call with a stride below 1
GridRejects ==
  /\ call'.op = "generateGrid"
  /\ (call'.arg.spacingX < 1 \/ call'.arg.spacingY < 1)

\* the step is a generateConcentricRings call with an outer radius at or
\* above min(width, height) / 2
RingsReject ==
  /\ call'.op = "generateConcentricRings"
  /\ 2 * call'.arg.radii[3] >= FloatScale * min(gen.width, gen.height)

\* C17 as stated: when generateGrid or generateConcentricRings rejects its
\* parameters and returns false, the grid holds exactly the contents it had
\* before the call.
C17_PriorGridKept ==
  [][(GridRejects \/ RingsReject) =>
       (ret' = FALSE /\ gen'.pattern = gen.pattern)]_vars

\* C17, amended: when generateGrid or generateConcentricRings rejects its
\* parameters and returns false, the grid is left with every cell false,
\* whatever it held before the call, and the generator's fields are as before.
C17_GridClearedOnReject ==
  [][(GridRejects \/ RingsReject) =>
       /\ ret' = FALSE
       /\ gen' = [gen EXCEPT !.pattern = {}]]_vars

\* generateGrid has rejected a stride below 1 on a grid that had a lit cell
C17_Witness ==
  /\ call.op = "generateGrid"
  /\ call.arg.spacingX < 1
  /\ call.arg.lit > 0
  /\ ret = FALSE
  /\ gen.pattern = {}

\* C18: generateConcentricRings with an outer radius greater than or equal to
\* min(width, height) / 2 returns false and leaves every cell of the grid
\* false, for any inner and middle radii, target spacing and prior contents.
C18_OversizedRingsRejected ==
  [][RingsReject =>
       /\ ret' = FALSE
       /\ \A c \in Cells(gen') : c \notin gen'.pattern]_vars

\* rings whose outer radius is exactly min(width, height) / 2 have been
\* rejected on a grid that had a lit cell
C18_Witness ==
  /\ call.op = "generateConcentricRings"
  /\ 2 * call.arg.radii[3] = FloatScale * min(gen.width, gen.height)
  /\ call.arg.lit > 0
  /\ ret = FALSE
  /\ gen.pattern = {}

\* C19: after generateSpiral returns, the cell (width / 2, height / 2) is lit
\* for every skip stride, also one that does not divide centerX + centerY,
\* and the call returns true.
C19_SpiralCentreLit ==
  [][call'.op = "generateSpiral" =>
       /\ ret' = TRUE
       /\ <<gen'.width \div 2, gen'.height \div 2>> \in gen'.pattern]_vars

\* a spiral was generated with a skip stride that does not divide
\* centerX + centerY, and its loop ran
C19_Witness ==
  /\ call.op = "generateSpiral"
  /\ call.arg.turns > 0
  /\ (getCenterX(gen) + getCenterY(gen))
       % calculateLEDSkip(gen, call.arg.spacing) # 0
  /\ <<getCenterX(gen), getCenterY(gen)>> \in gen.pattern
  /\ ret = TRUE

\* C20: generateGrid with both strides at least 1 lights exactly the cells
\* (x, y) of the matrix with x mod spacingX = 0 and y mod spacingY = 0 and
\* returns true; with strides 8 and 8 on 64 x 64 these are exactly the 64
\* cells (8i, 8j) for i, j in 0..7.
C20_GridLattice ==
  [][(/\ call'.op = "generateGrid"
      /\ call'.arg.spacingX >= 1
      /\ call'.arg.spacingY >= 1) =>
       /\ ret' = TRUE
       /\ gen'.pattern =
            { c \in Cells(gen) : /\ c[1] % call'.arg.spacingX = 0
                                 /\ c[2] % call'.arg.spacingY = 0 }
       /\ (/\ call'.arg.spacingX = 8
           /\ call'.arg.spacingY = 8
           /\ gen.width = 64
           /\ gen.height = 64) =>
            /\ gen'.pattern = { <<8 * i, 8 * j>> : i \in 0..7, j \in 0..7 }
            /\ Cardinality(gen'.pattern) = 64]_vars

\* the 8 by 8 grid has been generated on the 64 x 64 matrix
C20_Witness ==
  /\ call.op = "generateGrid"
  /\ call.arg.spacingX = 8
  /\ call.arg.spacingY = 8
  /\ gen.width = 64
  /\ gen.height = 64
  /\ Cardinality(gen.pattern) = 64
  /\ ret = TRUE

(***************************************************************************)
(* VisualizationManager: what the sink emits                               *)
(***************************************************************************)
\* C21: while visualization is disabled, sendLEDState and exportPattern emit
\* nothing; while it is enabled, exportPattern emits PATTERN_START first,
\* one PATTERN,x,y line for each lit cell and none for an unlit cell, and
\* PATTERN_END last, and sendLEDState emits exactly one LED,x,y,color line.
C21_Step ==
  /\ call'.op = "sendLEDState" =>
       out' = IF vis.enabled
                THEN <<"LED," \o ToString(call'.arg[1]) \o ","
                         \o ToString(call'.arg[2]) \o ","
                         \o ToString(call'.arg[3])>>
                ELSE <<>>
  /\ call'.op = "exportPattern" =>
       IF vis.enabled
         THEN IsPatternBlock(out', call'.arg[1], call'.arg[2], call'.arg[3])
         ELSE out' = <<>>
  /\ call'.op \in {"sendLEDState", "exportPattern"} => vis' = vis

C21_SinkGatedAndFramed == [][C21_Step]_vars

\* a grid with a lit and an unlit cell was exported while visualization was
\* enabled
C21_Witness ==
  /\ call.op = "exportPattern"
  /\ vis.enabled
  /\ call.arg[2] * call.arg[3] > 1
  /\ Len(out) = 3

(***************************************************************************)
(* LEDMatrix: what setLED shifts into the panel                            *)
(***************************************************************************)
\* the colour lines R0 R1 G0 G1 B0 B1 that carry color in the half of row y
TargetColours(y, color) ==
  LET r == (color \div 1) % 2
      g == (color \div 2) % 2
      b == (color \div 4) % 2
  IN  IF y < 32 THEN <<r, 0, g, 0, b, 0>> ELSE <<0, r, 0, g, 0, b>>

\* C22: in every successful setLED(x, y, color), after any history of
\* setLED and clearDisplay calls, the six colour lines are all LOW at the
\* clock pulse of every column other than x, and at the clock pulse of
\* column x the lines of the half selected by y carry the red, green and
\* blue bits of color while the lines of the other half are LOW.
C22_ColourOnlyAtTarget ==
  (call.op = "setLED" /\ ret = TRUE) =>
    LET x == call.arg[1]
        target == TargetColours(call.arg[2], call.arg[3])
    IN  matrix.shift.high =
          IF target = AllLow THEN {} ELSE {<<x, target>>}

\* C23: every successful setLED call gives the row exactly 64 clock pulses,
\* all of them with blank and latch asserted and with the address lines
\* holding the cached row address of y; after the last pulse it deasserts
\* latch, then blank, and returns with blank LOW, latch LOW and the dirty
\* flag false.
C23_Step ==
  (call'.op = "setLED" /\ ret' = TRUE) =>
    LET y == call'.arg[2]
    IN  /\ matrix'.shift.rows = {y}
        /\ matrix'.shift.clocks = 64
        /\ matrix'.shift.ctl = [BL |-> 1, LA |-> 1]
        /\ matrix'.shift.addr[y] = matrix.rowAddressCache[y]
        /\ matrix'.shift.tail = << <<"LA", 0>>, <<"BL", 0>> >>
        /\ matrix'.pin.BL = 0
        /\ matrix'.pin.LA = 0
        /\ matrix'.pin.CK = 0
        /\ ~matrix'.displayDirty

C23_SetLEDClocksRow == [][C23_Step]_vars

\* setLED has succeeded on a display that was blanked and dirty, in the
\* second half of the panel, after begin() computed the cache
C23_Witness ==
  /\ call.op = "setLED"
  /\ ret = TRUE
  /\ call.arg[2] = 32
  /\ matrix.rowAddressCache = InitAddressCache
  /\ matrix.shift.clocks = 64
  /\ matrix.pin.BL = LOW

(***************************************************************************)
(* CameraManager: every call returns                                       *)
(***************************************************************************)
\* no triggerCamera or testTrigger call is in progress
NoCallInProgress == pc = "idle"

\* what holds of the camera at every moment of a call and between calls
C24_State ==
  /\ NoCallInProgress => (~cam.triggerActive /\ triggerPin = LOW)
  /\ pc = "readyWait" =>
       ~Gt32(Sub32(now, call.startTime), U32(CAMERA_READY_TIMEOUT))
  /\ (NoCallInProgress /\ call.op \in {"triggerCamera", "testTrigger"}
      /\ hw # <<>>) =>
       /\ {"pinHigh", "pulseDelay", "pinLow"} \subseteq Events(hw)
       /\ ret = FALSE =>
            /\ call.op = "triggerCamera"
            /\ cam.errorCode = CAMERA_ERROR_TIMEOUT
            /\ hw[Len(hw)] = "readyDelay"

\* the polls the ready-wait can still make before its timeout forces it out
PollsLeft ==
  LET elapsed == Sub32(now, call.startTime)
  IN  IF Gt32(elapsed, U32(CAMERA_READY_TIMEOUT)) THEN 0
      ELSE ((CAMERA_READY_TIMEOUT - elapsed[2]) \div 10) + 1

\* a bound on the steps the call in progress can still take: 0 when none is
StepsLeft ==
  LET wait == (CAMERA_READY_TIMEOUT \div 10) + 3
  IN  CASE pc = "idle" -> 0
        [] pc = "postDelay" -> 1
        [] pc = "testReturn" -> 1
        [] pc = "readyWait" -> 1 + PollsLeft
        [] pc = "pulseLow" -> wait + 1
        [] pc = "pulseHigh" -> wait + 2
        [] pc = "preDelay" -> wait + 3

\* while a call is in progress its next step can be taken
C24_NotStuck == (~NoCallInProgress) => ENABLED CallStep

\* every step of a call in progress brings it nearer to its return
C24_Progress == (~NoCallInProgress) => StepsLeft' < StepsLeft

C25_Step ==
  /\ (~idle.idleMode /\ idle'.idleMode) =>
       /\ call'.op \in {"update", "enterIdleMode"}
       /\ fx' = <<"clearDisplay">>
       /\ matrix'.shift.rows = 0..63
       /\ matrix'.shift.high = {}
       /\ ColourLines(matrix'.pin) = AllLow
       /\ matrix'.pin.BL = HIGH
       /\ idle'.lastBlinkTime = now'
       /\ idle'.lastActivityTime = idle.lastActivityTime
       /\ now' = now
  /\ (idle.idleMode /\ ~idle'.idleMode) =>
       /\ idle'.lastActivityTime = now'
       /\ matrix'.displayDirty
       /\ now' = now

C25_Transitions == [][C25_Step]_vars

\* update() has entered Idle by timeout, some time after the last activity
\* and the last heartbeat timestamp
C25_Witness ==
  /\ call.op = "update"
  /\ idle.idleMode
  /\ fx = <<"clearDisplay">>
  /\ idle.lastBlinkTime = now
  /\ idle.lastActivityTime # now

\* an update() call that ran blinkHeartbeat
C26_Blinked == call'.op = "update" /\ fx' = <<"setLED", "clearDisplay">>

C26_Step ==
  /\ C26_Blinked =>
       /\ idle.idleMode /\ idle'.idleMode
       /\ Ge32(Sub32(now, idle.lastBlinkTime), idle.blinkInterval)
       /\ idle'.lastBlinkTime = now
       /\ now' = Add32(now, idle.blinkDuration)
       /\ matrix'.lastSet.x = MATRIX_WIDTH \div 2
       /\ matrix'.lastSet.y = MATRIX_HEIGHT \div 2
       /\ matrix'.lastSet.high =
            {<<MATRIX_WIDTH \div 2,
               TargetColours(MATRIX_HEIGHT \div 2, matrix'.lastSet.color)>>}
       /\ matrix'.shift.rows = 0..63
       /\ matrix'.shift.high = {}
       /\ ColourLines(matrix'.pin) = AllLow
  /\ (call'.op = "update" /\ idle.idleMode
        /\ ~Ge32(Sub32(now, idle.lastBlinkTime), idle.blinkInterval)) =>
       /\ fx' = <<>>
       /\ matrix' = matrix
       /\ now' = now
  /\ (idle.idleMode /\ idle'.idleMode /\ ~C26_Blinked) =>
       idle'.lastBlinkTime = idle.lastBlinkTime

\* C26: while Idle, update() runs a heartbeat only when at least
\* blinkInterval ms have passed since the last-heartbeat timestamp, which
\* holds the start of the previous heartbeat or the entry into Idle and is
\* set to the start of this one, so two heartbeats never start less than
\* blinkInterval apart; the heartbeat lights only the cell (32, 32), holds
\* it for blinkDuration ms and then clears the display.
C26_Heartbeat == [][C26_Step]_vars

\* a heartbeat started at 3 ms that held the centre LED for a millisecond
C26_Witness ==
  /\ call.op = "update" /\ fx = <<"setLED", "clearDisplay">>
  /\ idle.blinkDuration = U32(1)
  /\ idle.lastBlinkTime = U32(3)
  /\ now = U32(4)

(***************************************************************************)
(* SerialCommandManager: the settings and the test command                 *)
(***************************************************************************)
\* processCommands reads the command byte of the line the host just sent
C27_Reads(line) ==
  call'.op = "processCommands" /\ call'.arg = CMD_SET_CAMERA /\ ser.rx = line

C27_Step ==
  /\ \A f \in SettingsFields :
       C27_Reads(SettingsBytes(f, AllCommas)) =>
         /\ CameraSettingsOf(cam') = <<f[1] # 0, f[2], f[3], f[4]>>
         /\ \A k \in 1..Len(out') : out'[k] \notin CameraErrorLines
  /\ \A f \in SettingsFields, sep \in BrokenSeparators :
       /\ C27_Reads(SettingsBytes(f, sep)) =>
            \E k \in 1..Len(out') :
              out'[k] = "ERROR: Invalid camera settings format"
       /\ (call'.op = "processCommands" /\ call'.arg # ""
            /\ ser.line = SettingsBytes(f, sep)) =>
            CameraSettingsOf(cam') = CameraSettingsOf(cam)

\* C27: a settings command CS,<enabled>,<preDelay>,<pulseWidth>,<postDelay>
\* with every field in range sets enabled to (enabled # 0), the pre-delay to
\* the second field, the pulse width to the third and the post-delay to the
\* fourth; with one of the three separators between the fields missing, a
\* diagnostic is printed and none of the four settings changes, neither by
\* the command nor by the bytes it leaves in the buffer.
C27_SettingsCommand == [][C27_Step]_vars

\* CS,1,5000,1000,10000 applied to a camera that CS,0,3,2,4 had disabled
C27_Witness ==
  /\ call.op = "processCommands" /\ call.arg = CMD_SET_CAMERA
  /\ ser.line = SettingsBytes(<<1, 5000, 1000, 10000>>, AllCommas)
  /\ ser.received = 2
  /\ CameraSettingsOf(cam) = <<TRUE, 5000, 1000, 10000>>
  /\ out = <<"Camera settings updated">>

C28_Step ==
  \A f \in TestFields :
    C27_Reads(TestBytes(f)) =>
      /\ CameraSettingsOf(cam') = CameraSettingsOf(cam)
      /\ IF f[1] # 0
           THEN /\ hw' = <<"pinHigh", "pulseDelay", "pinLow">>
                /\ Sub32(now', now) = U32(10 + f[2])
                /\ cam'.triggerCount = cam.triggerCount + 1
                /\ out'[Len(out')] = "Camera test completed successfully"
           ELSE /\ hw' = <<>>
                /\ cam'.triggerCount = cam.triggerCount

\* C28: a test command CT,<enabled>,<pulseWidth> with a nonzero enabled
\* field raises the trigger pin once, for pulseWidth ms (the handler waits
\* 10 ms before it reads the command type), and reports success; with the
\* field 0 the pin is not raised; either way the stored enabled flag,
\* pre-delay, pulse width and post-delay keep their values.
C28_TestCommand == [][C28_Step]_vars

(***************************************************************************)
(* CameraManager: the test pulse                                           *)
(***************************************************************************)
C29_Step ==
  /\ call'.op = "testTrigger" =>
       CameraSettingsOf(cam') = CameraSettingsOf(cam)
  /\ (call'.op = "testTrigger" /\ pc = "idle" /\ cam.enabled) =>
       /\ pc' = "pulseHigh"
       /\ hw' = <<>>
       /\ now' = now
  /\ (call.op = "testTrigger" /\ pc # "idle") =>
       /\ pc' \in {"pulseLow", "testReturn", "idle"}
       /\ pc = "pulseLow" =>
            Sub32(now', now) =
              U32(IF call.arg > 0 THEN call.arg ELSE cam.pulseWidth)
       /\ pc # "pulseLow" => now' = now
       /\ pc' = "idle" =>
            /\ hw' = <<"pinHigh", "pulseDelay", "pinLow">>
            /\ ret' = TRUE

\* C29: testTrigger(customPulseWidth) with the camera enabled raises the
\* trigger pin once, holds it for customPulseWidth ms when that is above 0
\* and for the configured pulse width otherwise, and lowers it, with no
\* pre-delay, ready-wait or post-delay; no step of the call changes the
\* configured pulse width, pre-delay, post-delay or enabled flag.
C29_TestPulse == [][C29_Step]_vars

\* testTrigger(-1) returned after a pulse of the configured 1 ms
C29_Witness ==
  /\ pc = "idle" /\ call.op = "testTrigger" /\ call.arg = 0 - 1
  /\ cam.enabled /\ cam.pulseWidth = 1
  /\ hw = <<"pinHigh", "pulseDelay", "pinLow">>
  /\ ret = TRUE
  /\ cam.lastTriggerTime = now

(***************************************************************************)
(* PatternGenerator: the result does not depend on the grid handed in      *)
(***************************************************************************)
\* the step left the grid and the return value r
C30_Same(r) == gen' = r.gen /\ ret' = r.ok

\* the same call on the same geometry, the grid holding prior
C30_Other(prior) == [gen EXCEPT !.pattern = prior]

C30_Step ==
  \A prior \in {{}, Cells(gen)} :
    /\ call'.op = "generateCenterOnly" =>
         C30_Same(GenerateCenterOnly(C30_Other(prior)))
    /\ call'.op = "generateConcentricRings" =>
         C30_Same(GenerateConcentricRings(C30_Other(prior),
                    call'.arg.radii[1], call'.arg.radii[2],
                    call'.arg.radii[3], call'.arg.spacing))
    /\ call'.op = "generateGrid" =>
         C30_Same(GenerateGrid(C30_Other(prior), call'.arg.spacingX,
                               call'.arg.spacingY))
    /\ call'.op = "generateSpiral" =>
         \E p1 \in SpiralPoints(gen), p2 \in SpiralPoints(gen) :
           /\ C30_Same(GenerateSpiral(gen, call'.arg.spacing,
                                      call'.arg.turns, {p1, p2}))
           /\ C30_Same(GenerateSpiral(C30_Other(prior), call'.arg.spacing,
                                      call'.arg.turns, {p1, p2}))

\* C30: for each generator (centre only, rings, spiral, grid) the grid after
\* the call and the value returned are those the same call, with the same
\* parameters and, for the spiral, the same computed points, gives on the
\* same geometry with the grid all false and with the grid all true: they
\* do not depend on what the grid held before.
C30_PriorGridIgnored == [][C30_Step]_vars

\* generateCenterOnly called on the 8 by 8 lattice has left the centre alone
C30_Witness ==
  /\ call.op = "generateCenterOnly"
  /\ call.arg.lit = 64
  /\ gen.pattern = {<<getCenterX(gen), getCenterY(gen)>>}
  /\ ret = TRUE

(***************************************************************************)
(* CameraManager: the error codes in use                                   *)
(***************************************************************************)
\* C31: in every reachable state the camera error code is one of none,
\* timeout, trigger-failure and not-ready, and it is never trigger-failure
\* nor not-ready: the pulse step always succeeds and nothing assigns
\* not-ready.
C31_ErrorCodes ==
  /\ cam.errorCode \in {CAMERA_ERROR_NONE, CAMERA_ERROR_TIMEOUT,
                        CAMERA_ERROR_TRIGGER_FAILURE, CAMERA_ERROR_NOT_READY}
  /\ cam.errorCode \notin {CAMERA_ERROR_TRIGGER_FAILURE, CAMERA_ERROR_NOT_READY}

\* the second pulse was sent and its triggerCamera call ended in a timeout
C31_Witness ==
  /\ cam.triggerCount = 2
  /\ call.op = "triggerCamera" /\ pc = "idle"
  /\ call.success
  /\ cam.errorCode = CAMERA_ERROR_TIMEOUT

(***************************************************************************)
(* IdleManager: the inactivity clock after leaving Idle                    *)
(***************************************************************************)
C32_Step ==
  /\ (idle.idleMode /\ ~idle'.idleMode) =>
       idle'.lastActivityTime = now'
  /\ (~idle.idleMode /\ ~idle'.idleMode) =>
       idle'.lastActivityTime \in {idle.lastActivityTime, now'}
  /\ (~idle.idleMode /\ idle'.idleMode /\ call'.op = "update") =>
       Ge32(Sub32(now, idle.lastActivityTime), idle.idleTimeout)

\* C32: leaving Idle at time t restarts the inactivity clock at t, while
\* Active the clock is only ever restarted at the current time, and update()
\* enters Idle only when idleTimeout ms have passed on that clock; so
\* update() does not re-enter Idle before t + idleTimeout, however long ago
\* the last activity before the idle period was.
C32_ClockRestartsAtExit == [][C32_Step]_vars

\* update() one millisecond after Idle was left (the display was cleared and
\* then marked dirty), with a timeout of 2 ms: the manager stays Active
C32_Witness ==
  /\ call.op = "update" /\ ~idle.idleMode
  /\ matrix.shift.rows = 0..63 /\ matrix.displayDirty
  /\ idle.idleTimeout = U32(2)
  /\ Sub32(now, idle.lastActivityTime) = U32(1)

(***************************************************************************)
(* IdleManager: the elapsed times across the wrap of the clock             *)
(***************************************************************************)
\* the milliseconds that passed since the clock read 2^32 - WrapLead: a
\* count that does not wrap while the model runs
Unwrapped(t) ==
  LET s == Add32(t, U32(WrapLead))
  IN  s[1] * Limb + s[2]

\* the timestamp was recorded no later than now
Recorded(t) == Unwrapped(t) <= Unwrapped(now)

C33_Step ==
  call'.op = "update" =>
    /\ (~idle.idleMode /\ Recorded(idle.lastActivityTime)) =>
         (idle'.idleMode <=>
            Unwrapped(now) - Unwrapped(idle.lastActivityTime)
              >= idle.idleTimeout[1] * Limb + idle.idleTimeout[2])
    /\ (idle.idleMode /\ Recorded(idle.lastBlinkTime)) =>
         (fx' = <<"setLED", "clearDisplay">> <=>
            Unwrapped(now) - Unwrapped(idle.lastBlinkTime)
              >= idle.blinkInterval[1] * Limb + idle.blinkInterval[2])

\* C33: the idle-timeout and the blink-interval checks subtract the recorded
\* timestamp from the clock modulo 2^32, so update() enters Idle, and runs a
\* heartbeat, exactly when the milliseconds that really passed since the
\* timestamp reach the timeout, or the interval, also when the clock wrapped
\* past 2^32 in between.
C33_ElapsedAcrossWrap == [][C33_Step]_vars

\* update() entered Idle after the wrap, 3 ms after an activity recorded
\* before it
C33_Witness ==
  /\ call.op = "update" /\ idle.idleMode /\ fx = <<"clearDisplay">>
  /\ idle.lastActivityTime[1] = Limb - 1
  /\ now[1] = 0
  /\ idle.idleTimeout = U32(MaxIdleTimeout)
  /\ Sub32(now, idle.lastActivityTime) = U32(MaxIdleTimeout)

(***************************************************************************)
(* SerialCommandManager: commands that are no activity                     *)
(***************************************************************************)
\* v, q, p and C, 'a' while Active and 'i' while Idle
C34_Quiet(cmd) ==
  \/ cmd \in {CMD_VIS_START, CMD_VIS_STOP, CMD_PATTERN_EXPORT, CMD_SET_CAMERA}
  \/ cmd = CMD_IDLE_EXIT /\ ~idle.idleMode
  \/ cmd = CMD_IDLE_ENTER /\ idle.idleMode

C34_Step ==
  call'.op = "processCommands" =>
    /\ C34_Quiet(call'.arg) =>
         /\ idle'.idleMode = idle.idleMode
         /\ idle'.lastActivityTime = idle.lastActivityTime
    /\ (call'.arg # "" /\ ser.hasCamera /\ Head(ser.line) = CMD_SET_CAMERA
         /\ ~CameraParseFails(ser.line)) =>
         /\ call'.arg = CMD_SET_CAMERA
         /\ ser'.rx = <<>>

\* C34: a processCommands call that handles v, q, p or C, 'a' while Active
\* or 'i' while Idle changes neither the idle flag nor the last-activity
\* timestamp, and a camera command that parses is consumed whole by the call
\* that reads its C; so a stream of such commands neither postpones the
\* idle timeout nor wakes the manager from Idle.
C34_QuietCommands == [][C34_Step]_vars

\* a camera test command was handled while Idle, some time after the last
\* activity: the pulse was sent and the manager is still Idle
C34_Witness ==
  /\ call.op = "processCommands" /\ call.arg = CMD_SET_CAMERA
  /\ idle.idleMode
  /\ hw = <<"pinHigh", "pulseDelay", "pinLow">>
  /\ ser.rx = <<>>
  /\ Gt32(Sub32(now, idle.lastActivityTime), U32(0))

(***************************************************************************)
(* IdleManager: the display is off while Idle                              *)
(***************************************************************************)
\* C35: with the matrix driven by the IdleManager alone, whenever the idle
\* flag is true between two calls the blank line of the matrix is asserted
\* (HIGH, display off): the call that entered Idle and every heartbeat
\* ended with clearDisplay.
C35_BlankWhileIdle ==
  idle.idleMode =>
    /\ matrix.pin.BL = HIGH
    /\ (call.op \in {"update", "enterIdleMode"} /\ fx # <<>>) =>
         fx[Len(fx)] = "clearDisplay"

\* a heartbeat has lit the centre LED, which left the blank line LOW for the
\* hold, and has cleared the display
C35_Witness ==
  /\ idle.idleMode /\ call.op = "update"
  /\ fx = <<"setLED", "clearDisplay">>
  /\ matrix.lastSet.x = MATRIX_WIDTH \div 2
  /\ matrix.shift.tail = << <<"LA", LOW>>, <<"BL", HIGH>> >>
  /\ matrix.pin.BL = HIGH

(***************************************************************************)
(* PatternGenerator: generatePattern and its defaults                      *)
(***************************************************************************)
C36_Step ==
  call'.op = "generatePattern" =>
    LET type == call'.arg.type
    IN  /\ type = 0 =>
             /\ C30_Same(GenerateConcentricRings(gen, 270, 370, 470, 40))
             /\ (gen.width = 64 /\ gen.height = 64) =>
                  ret' = FALSE /\ gen'.pattern = {}
        /\ type = 1 => C30_Same(GenerateCenterOnly(gen))
        /\ type = 2 =>
             \E p1 \in SpiralPoints(gen), p2 \in SpiralPoints(gen) :
               C30_Same(GenerateSpiral(gen, 40, 3, {p1, p2}))
        /\ type = 3 => C30_Same(GenerateGrid(gen, 4, 4))
        /\ type \notin 0..3 => ret' = FALSE /\ gen' = gen

\* C36: generatePattern gives type 0 to the rings generator with radii 27,
\* 37, 47 and spacing 4.0 mm, type 1 to the centre generator, type 2 to the
\* spiral with 4.0 mm and 3 turns, type 3 to the grid with strides 4 and 4,
\* and returns false for any other type with the grid untouched; on a
\* 64 x 64 generator type 0 always returns false and leaves the grid all
\* false, the outer radius 47 not being below 32.
C36_DispatchDefaults == [][C36_Step]_vars

\* the default rings were asked for on the 64 x 64 matrix holding the 8 by 8
\* lattice: the call returned false and the grid is all false
C36_Witness ==
  /\ call.op = "generatePattern"
  /\ call.arg.type = PATTERN_CONCENTRIC_RINGS
  /\ call.arg.lit = 64
  /\ gen.width = 64 /\ gen.height = 64
  /\ ret = FALSE
  /\ gen.pattern = {}
=============================================================================
